---------------------------- MODULE Spec2Model ----------------------------
(***************************************************************************)
(* Hydraulic simulation of davydecorps/airbus-systems:                     *)
(*   src/systems/src/hydraulic/mod.rs   (Ptu, HydLoop, Pump and its users)  *)
(*   src/systems/src/a320/hydraulic.rs  (A320Hydraulic fixed-step driver)   *)
(*                                                                         *)
(* The source computes in f64 through the uom quantity types.  The model    *)
(* computes in fixed point, every product/quotient rounded to the nearest  *)
(* unit:                                                                    *)
(*   pressure      0.01 psi            volume       1e-6 gal                *)
(*   volume rate   1e-6 gal/s          time (dt)    1 ms                    *)
(*   displacement  0.001 in3/rev       pump speed   0.1 rpm                 *)
(*   Duration      1 ns (driver)                                            *)
(***************************************************************************)
EXTENDS Integers, Sequences, FiniteSets, TLC

VARIABLES
    loops,                   \* LoopIds -> HydLoop  (A320Hydraulic.{green,yellow,blue}_loop)
    pumps,                   \* PumpIds -> pump     (EDP 1/2, electric pumps, RAT pump)
    ptu,                     \* Ptu
    hyd_logic_inputs,        \* A320HydraulicLogic
    overhead_panel,          \* A320HydraulicOverheadPanel (push-button positions)
    engine_n2,               \* N2 of engine 1 and 2, percent
    total_sim_time_elapsed,  \* A320Hydraulic.total_sim_time_elapsed, ns
    lag_time_accumulator,    \* A320Hydraulic.lag_time_accumulator, ns
    focus,                   \* loop exercised by the component harness
    ops,                     \* number of operations performed so far
    obs                      \* what the last operation did (locals of the handler)

vars == << loops, pumps, ptu, hyd_logic_inputs, overhead_panel, engine_n2,
           total_sim_time_elapsed, lag_time_accumulator, focus, ops, obs >>

-----------------------------------------------------------------------------
(* Arithmetic                                                               *)

Abs(x) == IF x < 0 THEN -x ELSE x
Min(a, b) == IF a < b THEN a ELSE b
Max(a, b) == IF a > b THEN a ELSE b

\* one base-32 digit d of the multiplier: << q, r >> becomes the quotient and
\* remainder of (q * c + r) * 32 + x * d by c
MulStep(qr, d, x, c) ==
    LET t == qr[2] * 32 + x * d
    IN  << qr[1] * 32 + t \div c, t % c >>

\* <<q, r>> with x * y = q * c + r and 0 <= r < c, for 0 <= x < c <= 2^25 and
\* 0 <= y < 2^31, without forming a product above 2^31 - 1: y is taken digit by
\* digit in base 32, most significant first
MulQR(x, y, c) ==
    IF x = 0 \/ y = 0 THEN << 0, 0 >>
    ELSE IF y <= 2147483647 \div x THEN << (x * y) \div c, (x * y) % c >>
    ELSE MulStep(MulStep(MulStep(MulStep(MulStep(MulStep(MulStep(<< 0, 0 >>,
             y \div 1073741824, x, c),
             (y \div 33554432) % 32, x, c),
             (y \div 1048576) % 32, x, c),
             (y \div 32768) % 32, x, c),
             (y \div 1024) % 32, x, c),
             (y \div 32) % 32, x, c),
             y % 32, x, c)

\* <<q, r>> with n * m = q * c + r, 0 <= r < c, for n, m >= 0 and c > 0
QuotRem(n, m, c) ==
    LET h == MulQR(n % c, m, c)
    IN  << (n \div c) * m + h[1], h[2] >>

\* a * b / c rounded to the nearest integer (halves up), c # 0
MulDiv(a, b, c) ==
    LET neg == (a < 0) # ((b < 0) # (c < 0))
        cc  == Abs(c)
        qr  == QuotRem(Abs(a), Abs(b), cc)
    IN  IF neg THEN -qr[1] - (IF 2 * qr[2] > cc THEN 1 ELSE 0)
        ELSE qr[1] + (IF 2 * qr[2] >= cc THEN 1 ELSE 0)

\* floor(a * b / c) for a, b >= 0 and c > 0
MulDivFloor(a, b, c) == QuotRem(a, b, c)[1]

\* f64 values the fixed-point range cannot hold (x/0 = inf, 0/0 = NaN)
NonFinite == 2000000000

-----------------------------------------------------------------------------
(* interpolation                                                            *)

RECURSIVE InterpolationIdx(_, _, _)
InterpolationIdx(xs, x, idx) ==
    IF idx < Len(xs) /\ ~(x < xs[idx]) THEN InterpolationIdx(xs, x, idx + 1) ELSE idx

\* a lookup that takes the value at the segment's left end
interpolation_Stepped(xs, ys, intermediate_x) ==
    IF intermediate_x <= xs[1] THEN ys[1]
    ELSE IF intermediate_x >= xs[Len(xs)] THEN ys[Len(ys)]
    ELSE ys[InterpolationIdx(xs, intermediate_x, 2) - 1]

\* interpolation (lines 15-37)
interpolation(xs, ys, intermediate_x) ==
    IF intermediate_x <= xs[1] THEN ys[1]
    ELSE IF intermediate_x >= xs[Len(xs)] THEN ys[Len(ys)]
    ELSE LET idx == InterpolationIdx(xs, intermediate_x, 2)
         IN  ys[idx - 1]
             + MulDiv(intermediate_x - xs[idx - 1], ys[idx] - ys[idx - 1], xs[idx] - xs[idx - 1])

-----------------------------------------------------------------------------
(* Pumps                                                                    *)

PumpIds == { "edp1", "edp2", "yellow_epump", "blue_epump", "rat" }

DISPLACEMENT_BREAKPTS ==
    << 0, 50000, 100000, 150000, 280000, 290000, 300000, 305000, 350000 >>
EDP_DISPLACEMENT_MAP_Rising == << 2400, 2400, 2400, 2400, 2400, 2400, 2600, 0, 0 >>
EDP_DISPLACEMENT_MAP  == << 2400, 2400, 2400, 2400, 2400, 2400, 2000, 0, 0 >>
ELEC_DISPLACEMENT_MAP == << 263, 263, 263, 263, 263, 263, 163, 0, 0 >>
RAT_DISPLACEMENT_MAP  == << 1150, 1150, 1150, 1150, 1150, 1150, 900, 0, 0 >>

EDP_DISPLACEMENT_DYNAMICS  == 5      \* percent
ELEC_DISPLACEMENT_DYNAMICS == 100
RAT_DISPLACEMENT_DYNAMICS  == 100

EDP_MAX_RPM   == 40000
NOMINAL_SPEED == 76000
SPOOLUP_TIME   == 4000               \* ms
SPOOLDOWN_TIME == 4000
RAT_NORMAL_RPM == 60000

DisplacementMap(kind) ==
    CASE kind = "edp"      -> EDP_DISPLACEMENT_MAP
      [] kind = "electric" -> ELEC_DISPLACEMENT_MAP
      [] kind = "rat"      -> RAT_DISPLACEMENT_MAP

DisplacementDynamic(kind) ==
    CASE kind = "edp"      -> EDP_DISPLACEMENT_DYNAMICS
      [] kind = "electric" -> ELEC_DISPLACEMENT_DYNAMICS
      [] kind = "rat"      -> RAT_DISPLACEMENT_DYNAMICS

PumpKind(id) ==
    CASE id \in { "edp1", "edp2" }               -> "edp"
      [] id \in { "yellow_epump", "blue_epump" } -> "electric"
      [] id = "rat"                              -> "rat"

\* Pump::new (lines 627-635) with the active flag and rpm of its wrappers: the
\* tables are stored as given
PumpWith(kind, pressBreakpoints, displacementCarac, displacement_dynamic) ==
    [ kind |-> kind, active |-> FALSE, rpm |-> 0, delta_vol_max |-> 0, delta_vol_min |-> 0,
      pressBreakpoints |-> pressBreakpoints, displacementCarac |-> displacementCarac,
      displacement_dynamic |-> displacement_dynamic ]

\* EngineDrivenPump::new / ElectricPump::new / RatPump::new
PumpNew(kind) ==
    PumpWith(kind, DISPLACEMENT_BREAKPTS, DisplacementMap(kind), DisplacementDynamic(kind))

calculate_displacement(p, pressure) ==
    interpolation(p.pressBreakpoints, p.displacementCarac, pressure)

\* rpm * displacement / 231 / 60 gal/s
calculate_flow(rpm, displacement) == MulDiv(rpm * displacement, 100, 231 * 60)

\* an update that publishes the new maximum as the minimum too
PumpUpdate_MinFollowsMax(p, delta_time, pressure, rpm) ==
    LET displacement == calculate_displacement(p, pressure)
        flow         == calculate_flow(rpm, displacement)
        dyn          == p.displacement_dynamic
        vol_max      == MulDiv(100 - dyn, p.delta_vol_max, 100)
                        + MulDiv(dyn, MulDiv(flow, delta_time, 1000), 100)
    IN  [ p EXCEPT !.delta_vol_max = vol_max, !.delta_vol_min = vol_max ]

\* Pump::update
PumpUpdate(p, delta_time, pressure, rpm) ==
    LET displacement == calculate_displacement(p, pressure)
        flow         == calculate_flow(rpm, displacement)
        dyn          == p.displacement_dynamic
    IN  [ p EXCEPT !.delta_vol_max = MulDiv(100 - dyn, p.delta_vol_max, 100)
                                     + MulDiv(dyn, MulDiv(flow, delta_time, 1000), 100),
                   !.delta_vol_min = 0 ]

\* an electric pump that never turns
ElectricPumpUpdate_Seized(p, delta_time, pressure) ==
    PumpUpdate([ p EXCEPT !.rpm = 0 ], delta_time, pressure, 0)

\* ElectricPump::update
ElectricPumpUpdate(p, delta_time, pressure) ==
    LET spooled ==
            IF p.active /\ p.rpm < NOMINAL_SPEED
            THEN p.rpm + MulDiv(NOMINAL_SPEED, delta_time, SPOOLUP_TIME)
            ELSE IF ~p.active /\ p.rpm > 0
            THEN p.rpm - MulDiv(NOMINAL_SPEED, delta_time, SPOOLDOWN_TIME)
            ELSE p.rpm
        rpm == Max(Min(spooled, NOMINAL_SPEED), 0)
    IN  PumpUpdate([ p EXCEPT !.rpm = rpm ], delta_time, pressure, rpm)

\* rpm an engine driven pump turns at: MAX_RPM.min(n2^2 * 0.08 * MAX_RPM / 100), 0 if inactive
EdpRpm(p, n2) ==
    IF ~p.active THEN 0 ELSE Min(EDP_MAX_RPM, MulDiv(n2 * n2 * 8, EDP_MAX_RPM, 10000))

\* EngineDrivenPump::update
EngineDrivenPumpUpdate(p, delta_time, pressure, n2) ==
    PumpUpdate(p, delta_time, pressure, EdpRpm(p, n2))

\* RatPump::update
RatPumpUpdate(p, delta_time, pressure) ==
    PumpUpdate(p, delta_time, pressure, RAT_NORMAL_RPM)

\* the update of whichever pump type p is
AnyPumpUpdate(p, delta_time, pressure, n2) ==
    CASE p.kind = "edp"      -> EngineDrivenPumpUpdate(p, delta_time, pressure, n2)
      [] p.kind = "electric" -> ElectricPumpUpdate(p, delta_time, pressure)
      [] p.kind = "rat"      -> RatPumpUpdate(p, delta_time, pressure)

\* start() / stop()
PumpStart(p) == [ p EXCEPT !.active = TRUE ]

\* a stop that also halts the pump at once
PumpStop_Halted(p) == [ p EXCEPT !.active = FALSE, !.rpm = 0, !.delta_vol_max = 0 ]
PumpStop(p) == [ p EXCEPT !.active = FALSE ]

-----------------------------------------------------------------------------
(* Power transfer unit                                                      *)

AGRESSIVENESS_FACTOR == 6            \* tenths
FLOW_DYNAMIC_LOW_PASS_LEFT_SIDE  == 1
FLOW_DYNAMIC_LOW_PASS_RIGHT_SIDE == 1

PtuNew ==
    [ isEnabled |-> FALSE, isActiveRight |-> FALSE, isActiveLeft |-> FALSE,
      flow_to_right |-> 0, flow_to_left |-> 0, last_flow |-> 0 ]

\* vr.min(current_max_flow * AGRESSIVENESS_FACTOR); f64::min ignores a NaN operand
PtuCapFlow(vr, current_max_flow) ==
    IF current_max_flow = NonFinite THEN vr
    ELSE Min(vr, MulDiv(current_max_flow, AGRESSIVENESS_FACTOR, 10))

\* left activation that does not look at the right-active flag
PtuActivatesLeft_Unguarded(t, deltaP) == t.isActiveLeft \/ deltaP > 50000

\* conditions of the two activation branches of Ptu::update (lines 286, 302)
PtuActivatesLeft(t, deltaP) == t.isActiveLeft \/ (~t.isActiveRight /\ deltaP > 50000)

PtuActivatesRight(t, deltaP) == t.isActiveRight \/ (~t.isActiveLeft /\ deltaP < -50000)

\* left branch publishing a positive flow on both sides
PtuLeftBranch_SameSign(t, loopLeft) ==
    LET raw == MulDiv(Min(16000000, MulDiv(loopLeft.loop_pressure, 58, 1)), 1, 60)
        cap == PtuCapFlow(raw, loopLeft.current_max_flow)
        vr  == MulDiv(FLOW_DYNAMIC_LOW_PASS_LEFT_SIDE * cap
                      + (10 - FLOW_DYNAMIC_LOW_PASS_LEFT_SIDE) * t.last_flow, 1, 10)
    IN  [ t EXCEPT !.flow_to_left = vr, !.flow_to_right = MulDiv(vr, 81, 100),
                   !.last_flow = vr, !.isActiveLeft = TRUE ]

\* left side drives right side (lines 287-301)
PtuLeftBranch(t, loopLeft) ==
    LET raw == MulDiv(Min(16000000, MulDiv(loopLeft.loop_pressure, 58, 1)), 1, 60)
        cap == PtuCapFlow(raw, loopLeft.current_max_flow)
        vr  == MulDiv(FLOW_DYNAMIC_LOW_PASS_LEFT_SIDE * cap
                      + (10 - FLOW_DYNAMIC_LOW_PASS_LEFT_SIDE) * t.last_flow, 1, 10)
    IN  [ t EXCEPT !.flow_to_left = -vr, !.flow_to_right = MulDiv(vr, 81, 100),
                   !.last_flow = vr, !.isActiveLeft = TRUE ]

\* right side drives left side (lines 303-318)
PtuRightBranch(t, loopRight) ==
    LET raw == MulDiv(Min(34000000, MulDiv(loopRight.loop_pressure, 125, 1)), 1, 60)
        cap == PtuCapFlow(raw, loopRight.current_max_flow)
        vr  == MulDiv(FLOW_DYNAMIC_LOW_PASS_RIGHT_SIDE * cap
                      + (10 - FLOW_DYNAMIC_LOW_PASS_RIGHT_SIDE) * t.last_flow, 1, 10)
    IN  [ t EXCEPT !.flow_to_left = MulDiv(vr, 70, 100), !.flow_to_right = -vr,
                   !.last_flow = vr, !.isActiveRight = TRUE ]

\* an activation part that picks its branch from the pressure difference alone
PtuActivate_NoLatch(t, loopLeft, loopRight) ==
    LET deltaP == loopLeft.loop_pressure - loopRight.loop_pressure
    IN  IF deltaP > 50000 THEN PtuLeftBranch(t, loopLeft)
        ELSE IF deltaP < -50000 THEN PtuRightBranch(t, loopRight)
        ELSE t

\* the activation part of Ptu::update (lines 284-319)
PtuActivate(t, loopLeft, loopRight) ==
    LET deltaP == loopLeft.loop_pressure - loopRight.loop_pressure
    IN  IF PtuActivatesLeft(t, deltaP) THEN PtuLeftBranch(t, loopLeft)
        ELSE IF PtuActivatesRight(t, deltaP) THEN PtuRightBranch(t, loopRight)
        ELSE t

\* a deactivation test that ignores an over-pressure of the driven side
PtuMustDeactivate_NoOverpressure(t, loopLeft, loopRight) ==
    \/ t.isActiveRight /\ loopRight.loop_pressure < 50000
    \/ t.isActiveLeft /\ loopLeft.loop_pressure < 50000

\* the deactivation test of Ptu::update (lines 321-324)
PtuMustDeactivate(t, loopLeft, loopRight) ==
    \/ t.isActiveRight /\ loopLeft.loop_pressure > 300100
    \/ t.isActiveLeft /\ loopRight.loop_pressure > 300100
    \/ t.isActiveRight /\ loopRight.loop_pressure < 50000
    \/ t.isActiveLeft /\ loopLeft.loop_pressure < 50000

\* an update whose deactivation leaves the last flow in place
PtuUpdate_KeepsLastFlow(t, loopLeft, loopRight) ==
    IF ~t.isEnabled THEN t
    ELSE LET a == PtuActivate(t, loopLeft, loopRight)
         IN  IF PtuMustDeactivate(a, loopLeft, loopRight)
             THEN [ a EXCEPT !.flow_to_left = 0, !.flow_to_right = 0,
                             !.isActiveRight = FALSE, !.isActiveLeft = FALSE ]
             ELSE a

\* Ptu::update
PtuUpdate(t, loopLeft, loopRight) ==
    IF ~t.isEnabled THEN t
    ELSE LET a == PtuActivate(t, loopLeft, loopRight)
         IN  IF PtuMustDeactivate(a, loopLeft, loopRight)
             THEN [ a EXCEPT !.flow_to_left = 0, !.flow_to_right = 0,
                             !.isActiveRight = FALSE, !.isActiveLeft = FALSE,
                             !.last_flow = 0 ]
             ELSE a

\* the side that drives once the activation part of an update has run, before
\* the deactivation test
PtuEngaged(t, loopLeft, loopRight) ==
    IF ~t.isEnabled THEN "none"
    ELSE IF PtuActivate(t, loopLeft, loopRight).isActiveLeft THEN "left"
    ELSE IF PtuActivate(t, loopLeft, loopRight).isActiveRight THEN "right"
    ELSE "none"

\* a disabling that also shuts the PTU down
PtuEnabling_ForcesIdle(t, enable_flag) ==
    IF enable_flag THEN [ t EXCEPT !.isEnabled = TRUE ]
    ELSE [ PtuNew EXCEPT !.isEnabled = FALSE ]

\* Ptu::enabling
PtuEnabling(t, enable_flag) == [ t EXCEPT !.isEnabled = enable_flag ]

-----------------------------------------------------------------------------
(* Hydraulic loop                                                           *)

LoopIds == { "green", "yellow", "blue" }

ACCUMULATOR_GAS_PRE_CHARGE == 188500
ACCUMULATOR_MAX_VOLUME     == 264000
PRESSURE_LOW_PASS_FILTER   == 75     \* percent
DELTA_VOL_LOW_PASS_FILTER  == 1      \* tenths
ACCUMULATOR_PRESS_BREAKPTS ==
    << 0, 500, 1000, 5000, 10000, 20000, 50000, 100000, 1000000 >>
ACCUMULATOR_FLOW_CARAC ==
    << 0, 5000, 8000, 10000, 20000, 80000, 150000, 350000, 500000 >>

MIN_LOOP_PRESSURE == 1470            \* the 14.7 psi floor and leak reference
TARGET_PRESSURE   == 300000          \* the 3000 psi regulation target
FLUID_BULK_MOD    == 21030473        \* 1.45e9 Pa

\* HydLoop::new
HydLoopNew(color, left, right, loop_volume, max_loop_volume, hp_volume, reservoir_volume) ==
    [ color |-> color,
      connected_to_ptu_left_side |-> left,
      connected_to_ptu_right_side |-> right,
      accumulator_gas_pressure |-> ACCUMULATOR_GAS_PRE_CHARGE,
      accumulator_gas_volume |-> ACCUMULATOR_MAX_VOLUME,
      accumulator_fluid_volume |-> 0,
      loop_pressure |-> MIN_LOOP_PRESSURE,
      loop_volume |-> loop_volume,
      max_loop_volume |-> max_loop_volume,
      high_pressure_volume |-> hp_volume,
      ptu_active |-> FALSE,
      reservoir_volume |-> reservoir_volume,
      current_delta_vol |-> 0,
      current_flow |-> 0,
      current_max_flow |-> 0 ]

\* the three loops A320Hydraulic::new builds (the yellow loop is given LoopColor::Blue)
GreenLoopNew  == HydLoopNew("Green", TRUE, FALSE, 10200000, 10200000, 8000000, 3300000)
YellowLoopNew == HydLoopNew("Blue", FALSE, TRUE, 26000000, 26410000, 10000000, 3830000)
BlueLoopNew   == HydLoopNew("Blue", FALSE, FALSE, 15850000, 15850000, 8000000, 1500000)

\* a volume that does not scale with delta_time
VolumeOver_OneSecond(rate, delta_time) == rate

\* volume moved by a rate over delta_time
VolumeOver(rate, delta_time) == MulDiv(rate, delta_time, 1000)

\* volume / delta_time
RateOf(volume, delta_time) ==
    IF delta_time = 0 THEN NonFinite ELSE MulDiv(volume, 1000, delta_time)

\* HydLoop::get_usable_reservoir_flow; with delta_time = 0 max_flow is inf or NaN
\* and the comparison is false
get_usable_reservoir_flow(reservoir_volume, amount, delta_time) ==
    IF delta_time = 0 THEN amount
    ELSE LET max_flow == IF reservoir_volume >= 0
                         THEN MulDivFloor(reservoir_volume, 1000, delta_time)
                         ELSE MulDiv(reservoir_volume, 1000, delta_time)
         IN  IF amount > max_flow THEN max_flow ELSE amount

\* HydLoop::delta_pressure_from_delta_volume
delta_pressure_from_delta_volume(l, delta_vol) ==
    MulDiv(delta_vol, FLUID_BULK_MOD, l.high_pressure_volume)

\* HydLoop::vol_to_target
vol_to_target(l, target_press) ==
    MulDiv(target_press - l.loop_pressure, l.high_pressure_volume, FLUID_BULK_MOD)

\* sums of the pumps' delta_vol_max / delta_vol_min (lines 464-475)
RECURSIVE SumDeltaVolMax(_)
SumDeltaVolMax(ps) ==
    IF ps = << >> THEN 0 ELSE Head(ps).delta_vol_max + SumDeltaVolMax(Tail(ps))

RECURSIVE SumDeltaVolMin(_)
SumDeltaVolMin(ps) ==
    IF ps = << >> THEN 0 ELSE Head(ps).delta_vol_min + SumDeltaVolMin(Tail(ps))

\* a loop that does not leak
StaticLeaksVol_None(l, delta_time) == 0

\* static leak volume (line 483): 0.04 * dt * (P - 14.7) / 3000 gal
StaticLeaksVol(l, delta_time) ==
    MulDiv(4 * delta_time, l.loop_pressure - MIN_LOOP_PRESSURE, 30000)

\* one iteration of the PTU loop (lines 491-524) over the running locals
\* a = [ reservoir_volume, reservoir_return, delta_vol, ptu_act ]
PtuFlowStep(l, a, t, delta_time) ==
    LET flow == IF l.connected_to_ptu_left_side THEN t.flow_to_left ELSE t.flow_to_right
        actualFlow == IF flow > 0
                      THEN get_usable_reservoir_flow(a.reservoir_volume, flow, delta_time)
                      ELSE flow
        moved == VolumeOver(actualFlow, delta_time)
    IN  IF ~l.connected_to_ptu_left_side /\ ~l.connected_to_ptu_right_side THEN a
        ELSE [ reservoir_volume |-> IF flow > 0 THEN a.reservoir_volume - moved
                                    ELSE a.reservoir_volume,
               reservoir_return |-> IF flow > 0 THEN a.reservoir_return
                                    ELSE a.reservoir_return - moved,
               delta_vol        |-> a.delta_vol + moved,
               ptu_act          |-> a.ptu_act \/ (t.isActiveLeft \/ t.isActiveLeft) ]

RECURSIVE PtuFlows(_, _, _, _)
PtuFlows(l, a, ptus, delta_time) ==
    IF ptus = << >> THEN a
    ELSE PtuFlows(l, PtuFlowStep(l, a, Head(ptus), delta_time), Tail(ptus), delta_time)

\* a gas pressure that stays at the pre-charge
GasPressure_PreCharge(accumulator_fluid_volume) == ACCUMULATOR_GAS_PRE_CHARGE

\* gas pressure from Boyle's law (line 564); the quotient saturates outside the
\* fixed-point range, and is +inf when the gas volume is exactly 0
GasPressure(accumulator_fluid_volume) ==
    LET den == ACCUMULATOR_MAX_VOLUME - accumulator_fluid_volume
    IN  IF Abs(den) <= 24 THEN (IF den < 0 THEN -NonFinite ELSE NonFinite)
        ELSE MulDiv(ACCUMULATOR_GAS_PRE_CHARGE, ACCUMULATOR_MAX_VOLUME, den)

\* volume the accumulator takes from the loop when the gas pressure is not above
\* the loop pressure (line 558)
VolumeToAcc(delta_vol, flowVariation, delta_time) ==
    Max(Max(delta_vol, 0), VolumeOver(flowVariation, delta_time))

\* a regulation that follows the need below the pumps' minimum
VolumeAdded_Unfloored(reservoir_volume, delta_vol_min, delta_vol_max, needed) ==
    Min(reservoir_volume, Min(delta_vol_max, needed))

\* volume the regulation adds (line 589)
VolumeAdded(reservoir_volume, delta_vol_min, delta_vol_max, needed) ==
    Min(reservoir_volume, Max(delta_vol_min, Min(delta_vol_max, needed)))

\* the filtered pressure without the floor of line 597
FilteredPressure_NoFloor(l, new_raw_press) ==
    MulDiv(PRESSURE_LOW_PASS_FILTER * new_raw_press
           + (100 - PRESSURE_LOW_PASS_FILTER) * l.loop_pressure, 1, 100)

\* loop pressure after the low-pass filter and the floor (lines 596-597)
FilteredPressure(l, new_raw_press) ==
    Max(MulDiv(PRESSURE_LOW_PASS_FILTER * new_raw_press
               + (100 - PRESSURE_LOW_PASS_FILTER) * l.loop_pressure, 1, 100),
        MIN_LOOP_PRESSURE)

\* the reservoir without the return of leaked and PTU volume
ReservoirAfter_NoReturn(reservoir_volume, added, reservoir_return) ==
    reservoir_volume - added

\* reservoir volume after the update (lines 601-602)
ReservoirAfter(reservoir_volume, added, reservoir_return) ==
    reservoir_volume - added + reservoir_return

\* volume primed into the loop (lines 530-538)
DeltaLoopVol(l, reservoir_volume, delta_vol_max) ==
    IF l.loop_volume < l.max_loop_volume
    THEN Min(Min(reservoir_volume, delta_vol_max), l.max_loop_volume - l.loop_volume)
    ELSE 0

\* volumes exchanged with the accumulator (lines 552-562)
AccumulatorVolumes(l, accumulatorDeltaPress, flowVariation, delta_vol, delta_time) ==
    [ accumulatorDeltaPress |-> accumulatorDeltaPress,
      flowVariation |-> flowVariation,
      volumeFromAcc |-> IF accumulatorDeltaPress > 0
                        THEN Min(l.accumulator_fluid_volume,
                                 VolumeOver(flowVariation, delta_time))
                        ELSE 0,
      volumeToAcc   |-> IF accumulatorDeltaPress > 0 THEN 0
                        ELSE VolumeToAcc(delta_vol, flowVariation, delta_time) ]

\* the accumulator step (lines 546-562)
AccumulatorExchange(l, delta_vol, delta_time) ==
    AccumulatorVolumes(l, l.accumulator_gas_pressure - l.loop_pressure,
                       interpolation(ACCUMULATOR_PRESS_BREAKPTS, ACCUMULATOR_FLOW_CARAC,
                                     Abs(l.accumulator_gas_pressure - l.loop_pressure)),
                       delta_vol, delta_time)

\* delta_vol after the low-pass filter (line 607)
FilteredDeltaVol(l, delta_vol) ==
    MulDiv(DELTA_VOL_LOW_PASS_FILTER * delta_vol
           + (10 - DELTA_VOL_LOW_PASS_FILTER) * l.current_delta_vol, 1, 10)

\* pressure and volume update (lines 590-611) and the handler's result: the new
\* loop and its locals.  a: locals after the PTU loop, acc: accumulator
\* exchange, delta_vol: volume balance before regulation.
LoopResult(l, delta_time, delta_vol_max0, delta_vol_min, static_leaks_vol, a, delta_loop_vol, acc, delta_vol, needed, added, filtered) ==
    [ loop |->
        [ l EXCEPT
            !.current_max_flow = RateOf(delta_vol_max0, delta_time),
            !.ptu_active = a.ptu_act,
            !.accumulator_fluid_volume =
                l.accumulator_fluid_volume - acc.volumeFromAcc + acc.volumeToAcc,
            !.accumulator_gas_volume =
                l.accumulator_gas_volume + acc.volumeFromAcc - acc.volumeToAcc,
            !.accumulator_gas_pressure =
                GasPressure(l.accumulator_fluid_volume - acc.volumeFromAcc + acc.volumeToAcc),
            !.loop_pressure =
                FilteredPressure(l, l.loop_pressure
                                    + delta_pressure_from_delta_volume(l, delta_vol + added)),
            !.reservoir_volume =
                ReservoirAfter(a.reservoir_volume - delta_loop_vol, added, a.reservoir_return),
            !.loop_volume = l.loop_volume + delta_loop_vol + filtered,
            !.current_delta_vol = filtered,
            !.current_flow = RateOf(filtered, delta_time) ],
      static_leaks_vol |-> static_leaks_vol,
      ptu_vol          |-> a.delta_vol + static_leaks_vol,
      delta_loop_vol   |-> delta_loop_vol,
      accumulatorDeltaPress |-> acc.accumulatorDeltaPress,
      flowVariation    |-> acc.flowVariation,
      volumeToAcc      |-> acc.volumeToAcc,
      volumeFromAcc    |-> acc.volumeFromAcc,
      needed           |-> needed,
      delta_vol_max    |-> delta_vol_max0 - delta_loop_vol,
      delta_vol_min    |-> delta_vol_min,
      added            |-> added,
      delta_vol        |-> delta_vol + added ]

\* delta_vol filter (lines 589-607)
LoopRegulation(l, delta_time, delta_vol_max0, delta_vol_min, static_leaks_vol, a, delta_loop_vol, acc, delta_vol, needed, added) ==
    LoopResult(l, delta_time, delta_vol_max0, delta_vol_min, static_leaks_vol, a,
               delta_loop_vol, acc, delta_vol, needed, added,
               FilteredDeltaVol(l, delta_vol + added))

\* volume added by the pumps (lines 583-590)
LoopBalance(l, delta_time, delta_vol_max0, delta_vol_min, static_leaks_vol, a, delta_loop_vol, acc, delta_vol, needed) ==
    LoopRegulation(l, delta_time, delta_vol_max0, delta_vol_min, static_leaks_vol, a,
                   delta_loop_vol, acc, delta_vol, needed,
                   VolumeAdded(a.reservoir_volume - delta_loop_vol, delta_vol_min,
                               delta_vol_max0 - delta_loop_vol, needed))

\* balance after the accumulator and the volume still needed (lines 552-585)
LoopAccumulator(l, delta_time, delta_vol_max0, delta_vol_min, static_leaks_vol, a, delta_loop_vol, acc) ==
    LoopBalance(l, delta_time, delta_vol_max0, delta_vol_min, static_leaks_vol, a,
                delta_loop_vol, acc,
                a.delta_vol + acc.volumeFromAcc - acc.volumeToAcc,
                vol_to_target(l, TARGET_PRESSURE)
                  - (a.delta_vol + acc.volumeFromAcc - acc.volumeToAcc))

\* priming and the accumulator exchange (lines 530-562)
LoopPriming(l, delta_time, delta_vol_max0, delta_vol_min, static_leaks_vol, a) ==
    LoopAccumulator(l, delta_time, delta_vol_max0, delta_vol_min, static_leaks_vol, a,
                    DeltaLoopVol(l, a.reservoir_volume, delta_vol_max0),
                    AccumulatorExchange(l, a.delta_vol, delta_time))

\* static leak and PTU flows (lines 483-525)
LoopLeakAndPtu(l, delta_time, delta_vol_max0, delta_vol_min, static_leaks_vol, ptus) ==
    LoopPriming(l, delta_time, delta_vol_max0, delta_vol_min, static_leaks_vol,
                PtuFlows(l, [ reservoir_volume |-> l.reservoir_volume,
                              reservoir_return |-> static_leaks_vol,
                              delta_vol        |-> -static_leaks_vol,
                              ptu_act          |-> FALSE ], ptus, delta_time))

\* HydLoop::update.  Returns the new loop and the handler's locals; each step of
\* the handler hands its locals on to the next.
HydLoopUpdate(l, delta_time, pumpsIn, ptus) ==
    LoopLeakAndPtu(l, delta_time, SumDeltaVolMax(pumpsIn), SumDeltaVolMin(pumpsIn),
                   StaticLeaksVol(l, delta_time), ptus)

-----------------------------------------------------------------------------
(* Fixed-step driver: A320Hydraulic                                         *)

HYDRAULIC_SIM_TIME_STEP == 100       \* ms
NanosPerMilli == 1000000

\* Duration::from_millis(HYDRAULIC_SIM_TIME_STEP), ns
min_hyd_loop_timestep == HYDRAULIC_SIM_TIME_STEP * NanosPerMilli

\* Whole multiples k of the step for which the f64 quotient
\* time_to_catch.as_secs_f64() / 0.1 evaluates just below k (0.3 / 0.1 =
\* 2.9999999999999996), so that its floor is k - 1.  IEEE-754 double arithmetic,
\* k up to 50.
ShortQuotients == { 3, 6, 7, 12, 14, 19, 23, 24, 28, 29, 33, 38, 41, 43, 46, 48 }

\* number_of_steps_f64.floor() (lines 105, 126)
NumberOfStepsFloor(time_to_catch) ==
    LET k == time_to_catch \div min_hyd_loop_timestep
    IN  IF time_to_catch % min_hyd_loop_timestep = 0 /\ k \in ShortQuotients
        THEN k - 1 ELSE k

\* number_of_steps_f64 < 1.0 (line 118)
LessThanOneStep(time_to_catch) == time_to_catch < min_hyd_loop_timestep

\* (number_of_steps_f64 - n) * 0.1 s (lines 123, 128): the product is within
\* 1e-6 ns of time_to_catch - n * step
LagAfter(time_to_catch, num_of_update_loops) ==
    time_to_catch - num_of_update_loops * min_hyd_loop_timestep

\* Duration::from_secs_f64 of a time of nanos ns held as f64 seconds: std before
\* 1.60 converts with (secs * 1e9) as u128, which truncates and returns one
\* nanosecond less when the f64 falls below the whole number (0.11 s to catch
\* up leaves 9999999 ns); later std rounds to the nearest nanosecond.  Which
\* times lose the nanosecond depends on the rounding of the f64 quotient, so
\* both results are allowed for every positive time.
from_secs_f64(nanos) == IF nanos > 0 THEN { nanos - 1, nanos } ELSE { nanos }

\* A320HydraulicLogic::new
HydLogicNew ==
    [ parking_brake_applied |-> TRUE, weight_on_wheels |-> TRUE,
      eng_1_master_on |-> FALSE, eng_2_master_on |-> FALSE,
      nws_tow_engaged |-> FALSE, cargo_door_operation |-> FALSE ]

\* A320HydraulicOverheadPanel::new; TRUE is the first position of the button's
\* type name (auto of AutoOff, on of OnOff)
Buttons == { "edp1_push_button", "edp2_push_button", "blue_epump_push_button",
             "ptu_push_button", "rat_push_button", "yellow_epump_push_button" }

OverheadPanelNew ==
    [ b \in Buttons |-> b \notin { "rat_push_button", "yellow_epump_push_button" } ]

is_auto(panel, b) == panel[b]
is_on(panel, b)   == panel[b]
is_off(panel, b)  == ~panel[b]

\* an enabling condition without the cargo door inhibit
PtuEnableCondition_NoInhibit(logic, panel) ==
    /\ is_auto(panel, "ptu_push_button")
    /\ \/ logic.weight_on_wheels
       \/ logic.eng_1_master_on /\ logic.eng_2_master_on
       \/ ~logic.eng_1_master_on /\ ~logic.eng_2_master_on
       \/ ~logic.parking_brake_applied /\ ~logic.nws_tow_engaged

\* the PTU enabling condition of update_hyd_logic_inputs (lines 182-194)
PtuEnableCondition(logic, panel) ==
    LET ptu_inhibit == logic.cargo_door_operation /\ is_off(panel, "yellow_epump_push_button")
    IN  /\ is_auto(panel, "ptu_push_button")
        /\ \/ logic.weight_on_wheels
           \/ logic.eng_1_master_on /\ logic.eng_2_master_on
           \/ ~logic.eng_1_master_on /\ ~logic.eng_2_master_on
           \/ ~logic.parking_brake_applied /\ ~logic.nws_tow_engaged
        /\ ~ptu_inhibit

\* the world the driver owns
World(ls, ps, t) == [ loops |-> ls, pumps |-> ps, ptu |-> t ]

\* A320Hydraulic::update_hyd_logic_inputs
update_hyd_logic_inputs(w, logic, panel) ==
    LET edp1 == IF is_auto(panel, "edp1_push_button") THEN PumpStart(w.pumps["edp1"])
                ELSE PumpStop(w.pumps["edp1"])
        edp2 == IF is_auto(panel, "edp2_push_button") THEN PumpStart(w.pumps["edp2"])
                ELSE PumpStop(w.pumps["edp2"])
        yel  == IF is_off(panel, "yellow_epump_push_button")
                THEN PumpStart(w.pumps["yellow_epump"])
                ELSE PumpStop(w.pumps["yellow_epump"])
        blu  == IF is_auto(panel, "blue_epump_push_button")
                THEN PumpStart(w.pumps["blue_epump"])
                ELSE PumpStop(w.pumps["blue_epump"])
    IN  World(w.loops,
              [ w.pumps EXCEPT !["edp1"] = edp1, !["edp2"] = edp2,
                               !["yellow_epump"] = yel, !["blue_epump"] = blu ],
              PtuEnabling(w.ptu, PtuEnableCondition(logic, panel)))

\* loop updates that aggregate the pump outputs of the previous pass
SubStepLoops_StalePumps(w, dt, t1, edp1, edp2, yel, blu) ==
    World([ green  |-> HydLoopUpdate(w.loops["green"], dt, << w.pumps["edp1"] >>, << t1 >>).loop,
            yellow |-> HydLoopUpdate(w.loops["yellow"], dt,
                                     << w.pumps["edp2"], w.pumps["yellow_epump"] >>, << t1 >>).loop,
            blue   |-> HydLoopUpdate(w.loops["blue"], dt, << w.pumps["blue_epump"] >>, << >>).loop ],
          [ w.pumps EXCEPT !["edp1"] = edp1, !["edp2"] = edp2,
                           !["yellow_epump"] = yel, !["blue_epump"] = blu ],
          t1)

\* the three loop updates of one pass (lines 145-147)
SubStepLoops(w, dt, t1, edp1, edp2, yel, blu) ==
    World([ green  |-> HydLoopUpdate(w.loops["green"], dt, << edp1 >>, << t1 >>).loop,
            yellow |-> HydLoopUpdate(w.loops["yellow"], dt, << edp2, yel >>, << t1 >>).loop,
            blue   |-> HydLoopUpdate(w.loops["blue"], dt, << blu >>, << >>).loop ],
          [ w.pumps EXCEPT !["edp1"] = edp1, !["edp2"] = edp2,
                           !["yellow_epump"] = yel, !["blue_epump"] = blu ],
          t1)

\* a pass whose PTU update is given the capacity aggregated from this pass's
\* pump outputs
SubStep_FreshCapacity(w, n2) ==
    SubStepLoops(w, HYDRAULIC_SIM_TIME_STEP,
        PtuUpdate(w.ptu,
                  [ w.loops["green"] EXCEPT !.current_max_flow =
                      RateOf(EngineDrivenPumpUpdate(w.pumps["edp1"], HYDRAULIC_SIM_TIME_STEP,
                                 w.loops["green"].loop_pressure, n2[1]).delta_vol_max,
                             HYDRAULIC_SIM_TIME_STEP) ],
                  w.loops["yellow"]),
        EngineDrivenPumpUpdate(w.pumps["edp1"], HYDRAULIC_SIM_TIME_STEP,
                               w.loops["green"].loop_pressure, n2[1]),
        EngineDrivenPumpUpdate(w.pumps["edp2"], HYDRAULIC_SIM_TIME_STEP,
                               w.loops["yellow"].loop_pressure, n2[2]),
        ElectricPumpUpdate(w.pumps["yellow_epump"], HYDRAULIC_SIM_TIME_STEP,
                           w.loops["yellow"].loop_pressure),
        ElectricPumpUpdate(w.pumps["blue_epump"], HYDRAULIC_SIM_TIME_STEP,
                           w.loops["blue"].loop_pressure))

\* one pass of the fixed-step loop body (lines 138-147)
SubStep(w, n2) ==
    SubStepLoops(w, HYDRAULIC_SIM_TIME_STEP,
        PtuUpdate(w.ptu, w.loops["green"], w.loops["yellow"]),
        EngineDrivenPumpUpdate(w.pumps["edp1"], HYDRAULIC_SIM_TIME_STEP,
                               w.loops["green"].loop_pressure, n2[1]),
        EngineDrivenPumpUpdate(w.pumps["edp2"], HYDRAULIC_SIM_TIME_STEP,
                               w.loops["yellow"].loop_pressure, n2[2]),
        ElectricPumpUpdate(w.pumps["yellow_epump"], HYDRAULIC_SIM_TIME_STEP,
                           w.loops["yellow"].loop_pressure),
        ElectricPumpUpdate(w.pumps["blue_epump"], HYDRAULIC_SIM_TIME_STEP,
                           w.loops["blue"].loop_pressure))

RECURSIVE SubSteps(_, _, _)
SubSteps(w, n2, n) == IF n = 0 THEN w ELSE SubSteps(SubStep(w, n2), n2, n - 1)

-----------------------------------------------------------------------------
(* State machine                                                            *)

\* what the last operation was and the locals it computed
ObsNew ==
    [ op |-> "new", loop |-> "none", pump |-> "none", delta_time |-> 0, ptus |-> 0,
      static_leaks_vol |-> 0, ptu_vol |-> 0, delta_loop_vol |-> 0,
      accumulatorDeltaPress |-> 0, flowVariation |-> 0, volumeToAcc |-> 0,
      volumeFromAcc |-> 0, needed |-> 0, delta_vol_max |-> 0, delta_vol_min |-> 0,
      added |-> 0, delta_vol |-> 0,
      time_to_catch |-> 0, num_of_update_loops |-> 0, in_test_range |-> TRUE,
      intermediate_x |-> 0, result |-> 0, held_time |-> 0,
      left_pressure |-> 0, right_pressure |-> 0, engaged |-> "none",
      total_update_loops |-> 0 ]

\* A320Hydraulic::new with a fresh overhead panel; both engines stopped
InitWorld ==
    /\ loops = [ green |-> GreenLoopNew, yellow |-> YellowLoopNew, blue |-> BlueLoopNew ]
    /\ pumps = [ id \in PumpIds |-> PumpNew(PumpKind(id)) ]
    /\ ptu = PtuNew
    /\ hyd_logic_inputs = HydLogicNew
    /\ overhead_panel = OverheadPanelNew
    /\ engine_n2 = << 0, 0 >>
    /\ total_sim_time_elapsed = 0
    /\ lag_time_accumulator = 0
    /\ ops = 0
    /\ obs = ObsNew

Init == InitWorld /\ focus = "green"

driverVars == << hyd_logic_inputs, overhead_panel, engine_n2,
                 total_sim_time_elapsed, lag_time_accumulator, focus >>

\* start() / stop() of an engine driven or electric pump
PumpStartAct(id) ==
    /\ PumpKind(id) # "rat"
    /\ pumps' = [ pumps EXCEPT ![id] = PumpStart(@) ]
    /\ ops' = ops + 1
    /\ obs' = [ ObsNew EXCEPT !.op = "start", !.pump = id ]
    /\ UNCHANGED << loops, ptu, driverVars >>

PumpStopAct(id) ==
    /\ PumpKind(id) # "rat"
    /\ pumps' = [ pumps EXCEPT ![id] = PumpStop(@) ]
    /\ ops' = ops + 1
    /\ obs' = [ ObsNew EXCEPT !.op = "stop", !.pump = id ]
    /\ UNCHANGED << loops, ptu, driverVars >>

\* update() of a pump against a line at the given pressure
PumpUpdateAct(id, delta_time, pressure, n2) ==
    /\ pumps' = [ pumps EXCEPT ![id] = AnyPumpUpdate(@, delta_time, pressure, n2) ]
    /\ ops' = ops + 1
    /\ obs' = [ ObsNew EXCEPT !.op = "pump_update", !.pump = id, !.delta_time = delta_time ]
    /\ UNCHANGED << loops, ptu, driverVars >>

\* Ptu::enabling
PtuEnablingAct(enable_flag) ==
    /\ ptu' = PtuEnabling(ptu, enable_flag)
    /\ ops' = ops + 1
    /\ obs' = [ ObsNew EXCEPT !.op = "ptu_enabling" ]
    /\ UNCHANGED << loops, pumps, driverVars >>

\* Ptu::update against two loops
PtuUpdateAct(loopLeft, loopRight) ==
    /\ ptu' = PtuUpdate(ptu, loopLeft, loopRight)
    /\ ops' = ops + 1
    /\ obs' = [ ObsNew EXCEPT !.op = "ptu_update",
                              !.left_pressure = loopLeft.loop_pressure,
                              !.right_pressure = loopRight.loop_pressure,
                              !.engaged = PtuEngaged(ptu, loopLeft, loopRight) ]
    /\ UNCHANGED << loops, pumps, driverVars >>

\* HydLoop::update of loop id with the given pumps and PTUs attached
LoopUpdateAct(id, delta_time, pumpsIn, ptus) ==
    LET r == HydLoopUpdate(loops[id], delta_time, pumpsIn, ptus)
    IN  /\ loops' = [ loops EXCEPT ![id] = r.loop ]
        /\ ops' = ops + 1
        /\ obs' = [ ObsNew EXCEPT
                      !.op = "loop_update", !.loop = id, !.delta_time = delta_time,
                      !.ptus = Len(ptus),
                      !.static_leaks_vol = r.static_leaks_vol, !.ptu_vol = r.ptu_vol,
                      !.delta_loop_vol = r.delta_loop_vol,
                      !.accumulatorDeltaPress = r.accumulatorDeltaPress,
                      !.flowVariation = r.flowVariation,
                      !.volumeToAcc = r.volumeToAcc, !.volumeFromAcc = r.volumeFromAcc,
                      !.needed = r.needed, !.delta_vol_max = r.delta_vol_max,
                      !.delta_vol_min = r.delta_vol_min, !.added = r.added,
                      !.delta_vol = r.delta_vol ]
        /\ UNCHANGED << pumps, ptu, driverVars >>

-----------------------------------------------------------------------------
(* The fixed-step driver as the host runs it                                *)

MaxDriverOps == 3

\* simulated time the host runs for, ns
MaxSimTime == 2000000000

\* frame times the host passes, ns
HostDeltas == { 0, 2000000, 50000000, 100000000, 110000000, 300000000, 800000000 }
EngineN2s  == { 0, 55, 100 }

\* frame times of tests::fixed_step_loop_test: 2 ms to 110 ms
InTestRange(delta) == 2000000 <= delta /\ delta <= 110000000

\* A320Hydraulic::update
TickApply(delta, time_to_catch, n, w1) ==
    /\ ops < MaxDriverOps
    /\ delta <= MaxSimTime - total_sim_time_elapsed
    /\ total_sim_time_elapsed' = total_sim_time_elapsed + delta
    /\ lag_time_accumulator' \in from_secs_f64(LagAfter(time_to_catch, n))
    /\ loops' = w1.loops
    /\ pumps' = w1.pumps
    /\ ptu' = w1.ptu
    /\ ops' = ops + 1
    /\ obs' = [ obs EXCEPT !.op = "tick", !.delta_time = delta,
                           !.time_to_catch = time_to_catch,
                           !.num_of_update_loops = n,
                           !.total_update_loops = obs.total_update_loops + n,
                           !.in_test_range = obs.in_test_range /\ InTestRange(delta) ]
    /\ UNCHANGED << hyd_logic_inputs, overhead_panel, engine_n2, focus >>

\* a tick that applies the cockpit logic whether or not a step has accumulated
TickCatchUp_AlwaysLogic(delta, time_to_catch) ==
    IF LessThanOneStep(time_to_catch)
    THEN TickApply(delta, time_to_catch, 0,
                   update_hyd_logic_inputs(World(loops, pumps, ptu),
                                           hyd_logic_inputs, overhead_panel))
    ELSE TickApply(delta, time_to_catch, NumberOfStepsFloor(time_to_catch),
                   SubSteps(update_hyd_logic_inputs(World(loops, pumps, ptu),
                                                    hyd_logic_inputs, overhead_panel),
                            engine_n2, NumberOfStepsFloor(time_to_catch)))

\* the running of the fixed-step loop (lines 118-150) for time_to_catch
TickCatchUp(delta, time_to_catch) ==
    IF LessThanOneStep(time_to_catch)
    THEN TickApply(delta, time_to_catch, 0, World(loops, pumps, ptu))
    ELSE TickApply(delta, time_to_catch, NumberOfStepsFloor(time_to_catch),
                   SubSteps(update_hyd_logic_inputs(World(loops, pumps, ptu),
                                                    hyd_logic_inputs, overhead_panel),
                            engine_n2, NumberOfStepsFloor(time_to_catch)))

Tick(delta) == TickCatchUp(delta, delta + lag_time_accumulator)

\* the simulator moves a push button of the overhead panel
PressButton(b) ==
    /\ ops < MaxDriverOps
    /\ overhead_panel' = [ overhead_panel EXCEPT ![b] = ~@ ]
    /\ ops' = ops + 1
    /\ obs' = [ obs EXCEPT !.op = "button" ]
    /\ UNCHANGED << loops, pumps, ptu, hyd_logic_inputs, engine_n2,
                    total_sim_time_elapsed, lag_time_accumulator, focus >>

\* an engine reaches another N2
SetEngineN2(e, n2) ==
    /\ ops < MaxDriverOps
    /\ engine_n2[e] # n2
    /\ engine_n2' = [ engine_n2 EXCEPT ![e] = n2 ]
    /\ ops' = ops + 1
    /\ obs' = [ obs EXCEPT !.op = "engine" ]
    /\ UNCHANGED << loops, pumps, ptu, hyd_logic_inputs, overhead_panel,
                    total_sim_time_elapsed, lag_time_accumulator, focus >>

\* A320HydraulicLogic::read
LogicRead(park_brake_on, eng_master_1, eng_master_2) ==
    /\ ops < MaxDriverOps
    /\ hyd_logic_inputs' = [ hyd_logic_inputs EXCEPT
                               !.parking_brake_applied = park_brake_on,
                               !.eng_1_master_on = eng_master_1,
                               !.eng_2_master_on = eng_master_2 ]
    /\ ops' = ops + 1
    /\ obs' = [ obs EXCEPT !.op = "read" ]
    /\ UNCHANGED << loops, pumps, ptu, overhead_panel, engine_n2,
                    total_sim_time_elapsed, lag_time_accumulator, focus >>

Next ==
    \/ \E delta \in HostDeltas : Tick(delta)
    \/ \E b \in Buttons : PressButton(b)
    \/ \E e \in { 1, 2 }, n2 \in EngineN2s : SetEngineN2(e, n2)
    \/ \E pb \in BOOLEAN, m1 \in BOOLEAN, m2 \in BOOLEAN : LogicRead(pb, m1, m2)

Spec == Init /\ [][Next]_vars

-----------------------------------------------------------------------------
(* A pump driven directly: start, stop and update against any line          *)

MaxPumpOps == 3

PumpDts       == { 0, 100 }
PumpPressures == { 1470, 290000, 300000, 305000 }
PumpN2s       == { 0, 100 }

InitPump == Init

NextPump ==
    /\ ops < MaxPumpOps
    /\ \E id \in PumpIds :
         \/ PumpStartAct(id)
         \/ PumpStopAct(id)
         \/ \E dt \in PumpDts, p \in PumpPressures,
               n2 \in (IF PumpKind(id) = "edp" THEN PumpN2s ELSE { 0 }) :
              PumpUpdateAct(id, dt, p, n2)

SpecPump == InitPump /\ [][NextPump]_vars

-----------------------------------------------------------------------------
(* A PTU driven directly: enabling and update against any two lines         *)

MaxPtuOps == 5

\* the pressure and pump capacity of the lines the PTU is shown
PtuLine(pressure, max_flow) == [ loop_pressure |-> pressure, current_max_flow |-> max_flow ]

PtuLines == { PtuLine(1470, 0), PtuLine(40000, 100000), PtuLine(200000, 300000),
              PtuLine(290000, 20000), PtuLine(300200, 0), PtuLine(200000, NonFinite) }

InitPtu == Init

NextPtu ==
    /\ ops < MaxPtuOps
    /\ \/ \E flag \in BOOLEAN : PtuEnablingAct(flag)
       \/ \E l \in PtuLines, r \in PtuLines : PtuUpdateAct(l, r)

SpecPtu == InitPtu /\ [][NextPtu]_vars

-----------------------------------------------------------------------------
(* One loop driven directly, fed by a RAT pump, wired to the PTU as in      *)
(* A320Hydraulic (green left, yellow right, blue none)                      *)

MaxLoopOps == 6

LoopDts == { 0, 100, 1000 }
RatDts  == { 0, 1000 }
LoopPtuLines == { PtuLine(1470, 0), PtuLine(290000, NonFinite) }

InitLoop == InitWorld /\ focus \in LoopIds

AttachedPtus(id) == IF id = "blue" THEN << >> ELSE << ptu >>

NextLoop ==
    /\ ops < MaxLoopOps
    /\ \/ \E dt \in LoopDts : LoopUpdateAct(focus, dt, << pumps["rat"] >>, AttachedPtus(focus))
       \/ \E dt \in RatDts : PumpUpdateAct("rat", dt, loops[focus].loop_pressure, 0)
       \/ \E flag \in BOOLEAN : PtuEnablingAct(flag)
       \/ \E l \in LoopPtuLines, r \in LoopPtuLines : PtuUpdateAct(l, r)

SpecLoop == InitLoop /\ [][NextLoop]_vars

-----------------------------------------------------------------------------
(* Properties                                                               *)

\* reservoir volume each loop is constructed with
ReservoirNew(id) ==
    CASE id = "green"  -> GreenLoopNew.reservoir_volume
      [] id = "yellow" -> YellowLoopNew.reservoir_volume
      [] id = "blue"   -> BlueLoopNew.reservoir_volume

LoopUpdated == obs.op = "loop_update"

\* C1: the loop pressure is 14.7 psi at construction and at least 14.7 psi after
\* every HydLoop::update, whatever dt, the pump outputs and the PTU flows are.
C1_LoopPressureFloor ==
    \A id \in LoopIds : loops[id].loop_pressure >= 1470

\* a loop update in which the PTU drew volume from a loop already at the floor
C1_Witness ==
    /\ LoopUpdated
    /\ obs.delta_vol < 0
    /\ obs.ptu_vol < 0
    /\ loops[focus].loop_pressure = 1470

\* C2 (as claimed): every loop's reservoir volume stays between 0 and the volume
\* the loop was constructed with.
C2_ReservoirWithinConstructed ==
    \A id \in LoopIds :
        /\ loops[id].reservoir_volume >= 0
        /\ loops[id].reservoir_volume <= ReservoirNew(id)

\* change of a field of the loop under update over one step
Delta(field) == loops'[focus][field] - loops[focus][field]

NoPtuLoopUpdate == obs'.op = "loop_update" /\ obs'.ptus = 0

\* C3 (as claimed): over a HydLoop::update with no PTU attached,
\* d(reservoir) + d(loop_volume) + d(accumulator fluid) + static_leak + consumer_sink = 0
\* (there is no consumer: used_fluidQty is 0).
C3_ConservationWithLeakTerm ==
    [][ NoPtuLoopUpdate =>
          Delta("reservoir_volume") + Delta("loop_volume")
          + Delta("accumulator_fluid_volume") + obs'.static_leaks_vol + 0 = 0 ]_vars

\* C3 (amended): over a HydLoop::update with no PTU attached the reservoir, the
\* accumulator, the priming volume and the unfiltered delta_vol balance exactly
\* (the static leak returns to the reservoir), and the loop volume grows by the
\* priming volume plus the low-pass filtered delta_vol.
C3_Conservation ==
    [][ NoPtuLoopUpdate =>
          /\ Delta("reservoir_volume") + Delta("accumulator_fluid_volume")
             + obs'.delta_loop_vol + obs'.delta_vol = 0
          /\ Delta("loop_volume") = obs'.delta_loop_vol + loops'[focus].current_delta_vol ]_vars

\* a PTU-less update that leaked, exchanged with the accumulator and regulated
C3_Witness ==
    /\ LoopUpdated
    /\ obs.ptus = 0
    /\ obs.static_leaks_vol > 0
    /\ obs.volumeToAcc > 0
    /\ obs.added > 0

\* C4: the PTU is never active in both directions at once.
C4_ExclusiveFlags == ~(ptu.isActiveLeft /\ ptu.isActiveRight)

\* the PTU runs right to left and has been updated more than once
C4_Witness ==
    /\ obs.op = "ptu_update"
    /\ ptu.isActiveRight
    /\ ptu.last_flow > 56667

\* C5: the two published flows never have the same strict sign; the driving side
\* publishes a flow <= 0 and the driven side a flow >= 0.
C5_OpposedFlows ==
    /\ ~(ptu.flow_to_left > 0 /\ ptu.flow_to_right > 0)
    /\ ~(ptu.flow_to_left < 0 /\ ptu.flow_to_right < 0)
    /\ ptu.isActiveLeft => ptu.flow_to_left <= 0 /\ ptu.flow_to_right >= 0
    /\ ptu.isActiveRight => ptu.flow_to_right <= 0 /\ ptu.flow_to_left >= 0

\* the PTU drives left to right with a non-zero flow
C5_Witness ==
    /\ obs.op = "ptu_update"
    /\ ptu.isActiveLeft
    /\ ptu.flow_to_left < 0
    /\ ptu.flow_to_right > 0

\* gas pressure times gas volume is within 1% of 1885 psi * 0.264 gal; a gas
\* pressure beyond the fixed-point range stands for the quotient of a gas volume
\* of at most 24 units, and no finite pressure balances a gas volume of 0
Boyle(l) ==
    IF Abs(l.accumulator_gas_pressure) = NonFinite
    THEN l.accumulator_gas_volume # 0
    ELSE Abs(MulDiv(l.accumulator_gas_pressure, l.accumulator_gas_volume, 1000)
             - (188500 * 264)) * 100 <= 188500 * 264

\* C6: after every HydLoop::update fluid volume + gas volume = 0.264 gal and
\* gas pressure * gas volume = 1885 psi * 0.264 gal within 1%.
C6_BoyleAndPartition ==
    \A id \in LoopIds :
        /\ loops[id].accumulator_fluid_volume + loops[id].accumulator_gas_volume = 264000
        /\ Boyle(loops[id])

\* an update after which the accumulator holds fluid
C6_Witness ==
    /\ LoopUpdated
    /\ loops[focus].accumulator_fluid_volume > 0
    /\ loops[focus].accumulator_gas_pressure > 188500

\* C7 (as claimed): 0 <= accumulator fluid volume < 0.264 gal, the gas volume is
\* > 0 and the gas pressure is at least the 1885 psi pre-charge.
C7_AccumulatorInRange ==
    \A id \in LoopIds :
        /\ 0 <= loops[id].accumulator_fluid_volume
        /\ loops[id].accumulator_fluid_volume < 264000
        /\ loops[id].accumulator_gas_volume > 0
        /\ loops[id].accumulator_gas_pressure >= 188500

ZeroDtLoopUpdate == obs'.op = "loop_update" /\ obs'.delta_time = 0
ZeroDtPumpUpdate == obs'.op = "pump_update" /\ obs'.delta_time = 0

AccumulatorUnchanged ==
    /\ Delta("accumulator_fluid_volume") = 0
    /\ Delta("accumulator_gas_volume") = 0
    /\ Delta("accumulator_gas_pressure") = 0

LoopVolumesUnchanged ==
    /\ Delta("loop_pressure") = 0
    /\ Delta("loop_volume") = 0
    /\ Delta("reservoir_volume") = 0
    /\ Delta("current_delta_vol") = 0

PumpOutputsUnchanged ==
    \A id \in PumpIds :
        /\ pumps'[id].delta_vol_max = pumps[id].delta_vol_max
        /\ pumps'[id].delta_vol_min = pumps[id].delta_vol_min

\* C8 (as claimed): a HydLoop::update or a pump update with dt = 0 leaves the
\* loop pressure, loop volume, reservoir volume, accumulator volumes and pressure,
\* current_delta_vol and the pump outputs as they were.
C8_ZeroDtChangesNothing ==
    [][ (ZeroDtLoopUpdate \/ ZeroDtPumpUpdate) =>
          AccumulatorUnchanged /\ LoopVolumesUnchanged /\ PumpOutputsUnchanged ]_vars

\* C8 (amended): with dt = 0 a HydLoop::update moves no leak, PTU or accumulator
\* volume, so the accumulator volumes and gas pressure stay; priming, regulation
\* and the delta_vol filter still act, so pressure, loop volume, reservoir and
\* current_delta_vol stay only if the attached pumps publish delta_vol_max = 0
\* and current_delta_vol is 0.  A pump update with dt = 0 keeps the pump speed
\* and keeps delta_vol_max only if it was 0.
C8_ZeroDt ==
    [][ /\ ZeroDtLoopUpdate =>
             /\ obs'.static_leaks_vol = 0
             /\ obs'.ptu_vol = 0
             /\ AccumulatorUnchanged
             /\ PumpOutputsUnchanged
             /\ (pumps["rat"].delta_vol_max = 0 /\ loops[focus].current_delta_vol = 0)
                  => LoopVolumesUnchanged
        /\ ZeroDtPumpUpdate =>
             /\ loops' = loops
             /\ \A id \in PumpIds :
                  /\ pumps'[id].rpm = pumps[id].rpm
                  /\ pumps[id].delta_vol_max = 0 => pumps'[id] = pumps[id] ]_vars

\* a dt = 0 update of a pressurised loop whose accumulator holds fluid
C8_Witness ==
    /\ LoopUpdated
    /\ obs.delta_time = 0
    /\ obs.flowVariation > 0
    /\ loops[focus].accumulator_fluid_volume > 0
    /\ loops[focus].loop_pressure > 1470

\* line pressures the pump characteristic is sampled at, in increasing order
PumpSamplePressures ==
    << 0, 1470, 150000, 289000, 290000, 295000, 300000, 302500, 305000, 350000, 400000 >>
PumpSampleDts == { 0, 100, 1000 }

\* delta_vol_max pump p publishes after an update at the given line pressure
Published(p, dt, pressure, n2) == AnyPumpUpdate(p, dt, pressure, n2).delta_vol_max

\* C9: for every pump, from the same state and with the same dt and speed, the
\* published delta_vol_max does not grow with the line pressure from 2900 psi
\* up, is the same for all pressures up to 2900 psi (full displacement, 2.4 in3
\* for the EDP), and from 3050 psi up carries no flow: only the low-pass
\* remainder of the previous delta_vol_max.  Stated on each pair of neighbouring
\* sample pressures.
C9_PumpOutputVsPressure ==
    \A id \in PumpIds, dt \in PumpSampleDts, n2 \in PumpN2s,
       i \in 1 .. (Len(PumpSamplePressures) - 1) :
        LET p1 == PumpSamplePressures[i]
            p2 == PumpSamplePressures[i + 1]
        IN  /\ p1 >= 290000 =>
                 Published(pumps[id], dt, p1, n2) >= Published(pumps[id], dt, p2, n2)
            /\ p2 <= 290000 =>
                 /\ Published(pumps[id], dt, p1, n2) = Published(pumps[id], dt, p2, n2)
                 /\ calculate_displacement(PumpNew("edp"), p1) = 2400
                 /\ calculate_displacement(PumpNew("edp"), p2) = 2400
            /\ p2 >= 305000 =>
                 Published(pumps[id], dt, p2, n2)
                   = MulDiv(100 - DisplacementDynamic(PumpKind(id)),
                            pumps[id].delta_vol_max, 100)

\* a started EDP that already publishes an output and an electric pump that turns
C9_Witness ==
    \E e \in { "edp1", "edp2" }, m \in { "yellow_epump", "blue_epump" } :
        /\ pumps[e].active
        /\ pumps[e].delta_vol_max > 0
        /\ pumps[m].active

\* C10 (as claimed): after every tick the lag accumulator is strictly below one
\* fixed step of 100 ms; while all frame times are within 2..110 ms the lag is
\* below 200 ms and fewer than 5 sub-steps are run in a frame.
C10_LagBelowOneStep ==
    obs.op = "tick" =>
        /\ lag_time_accumulator < 100 * 1000000
        /\ obs.in_test_range =>
             /\ lag_time_accumulator < 200 * 1000000
             /\ obs.num_of_update_loops < 5

-----------------------------------------------------------------------------
(* Ordering within a sub-step                                               *)

\* the last operation was a host tick that ran at least one sub-step
TickedWithSubSteps == obs.op = "tick" /\ obs.num_of_update_loops >= 1

\* C11: within a sub-step the PTU and every pump are updated before any loop:
\* what each loop aggregated in its update (the sum of its pumps' delta_vol_max
\* as current_max_flow, the PTU's active flag as ptu_active) is what the pumps
\* and the PTU publish at the end of that sub-step.
C11_LoopsAfterPumpsAndPtu ==
    /\ loops["green"].current_max_flow
         = RateOf(pumps["edp1"].delta_vol_max, HYDRAULIC_SIM_TIME_STEP)
    /\ loops["yellow"].current_max_flow
         = RateOf(pumps["edp2"].delta_vol_max + pumps["yellow_epump"].delta_vol_max,
                  HYDRAULIC_SIM_TIME_STEP)
    /\ loops["blue"].current_max_flow
         = RateOf(pumps["blue_epump"].delta_vol_max, HYDRAULIC_SIM_TIME_STEP)
    /\ loops["green"].ptu_active = ptu.isActiveLeft
    /\ loops["yellow"].ptu_active = ptu.isActiveLeft

C11_Witness ==
    /\ TickedWithSubSteps
    /\ obs.num_of_update_loops >= 2
    /\ loops["green"].current_max_flow > 0
    /\ loops["yellow"].current_max_flow > 0
    /\ loops["green"].ptu_active

\* this step is a host tick that runs at least one sub-step
TickStepWithSubSteps == obs'.op = "tick" /\ ops' = ops + 1 /\ obs'.num_of_update_loops >= 1

\* the world the last sub-step of this tick starts from
BeforeLastSubStep ==
    SubSteps(update_hyd_logic_inputs(World(loops, pumps, ptu), hyd_logic_inputs, overhead_panel),
             engine_n2, obs'.num_of_update_loops - 1)

\* the loop as it would be read had it already aggregated the pump outputs of
\* the sub-step that ends in the loop after
WithCapacityOf(l, after) == [ l EXCEPT !.current_max_flow = after.current_max_flow ]

\* C12 as stated: in every sub-step the capacity the PTU reads to cap its flow
\* is the one aggregated from the pump outputs published in that same sub-step.
C12_PtuReadsSameSubStepCapacity ==
    [][ TickStepWithSubSteps =>
          ptu' = PtuUpdate(BeforeLastSubStep.ptu,
                           WithCapacityOf(BeforeLastSubStep.loops["green"], loops'["green"]),
                           WithCapacityOf(BeforeLastSubStep.loops["yellow"], loops'["yellow"])) ]_vars

\* C12: in every sub-step each loop aggregates the pump outputs published in
\* that same sub-step, while the PTU, updated first, caps its flow with the
\* source loop's current_max_flow as the previous sub-step left it, which is
\* the aggregate of the pump outputs published in the previous sub-step.
C12_PtuReadsPreviousCapacity ==
    [][ TickStepWithSubSteps =>
          /\ ptu' = PtuUpdate(BeforeLastSubStep.ptu, BeforeLastSubStep.loops["green"],
                              BeforeLastSubStep.loops["yellow"])
          /\ BeforeLastSubStep.loops["green"].current_max_flow
               = RateOf(BeforeLastSubStep.pumps["edp1"].delta_vol_max, HYDRAULIC_SIM_TIME_STEP)
          /\ BeforeLastSubStep.loops["yellow"].current_max_flow
               = RateOf(BeforeLastSubStep.pumps["edp2"].delta_vol_max
                        + BeforeLastSubStep.pumps["yellow_epump"].delta_vol_max,
                        HYDRAULIC_SIM_TIME_STEP)
          /\ loops'["green"].current_max_flow
               = RateOf(pumps'["edp1"].delta_vol_max, HYDRAULIC_SIM_TIME_STEP)
          /\ loops'["yellow"].current_max_flow
               = RateOf(pumps'["edp2"].delta_vol_max + pumps'["yellow_epump"].delta_vol_max,
                        HYDRAULIC_SIM_TIME_STEP) ]_vars

\* the PTU drives from the green side and the green pump capacity, still
\* building up, is what limits its flow
C12_Witness ==
    /\ TickedWithSubSteps
    /\ ptu.isActiveLeft /\ ptu.last_flow > 0
    /\ MulDiv(loops["green"].current_max_flow, AGRESSIVENESS_FACTOR, 10)
         < MulDiv(Min(16000000, MulDiv(loops["green"].loop_pressure, 58, 1)), 1, 60)

-----------------------------------------------------------------------------
(* Cockpit logic                                                            *)

\* this step is a host tick
TickStep == obs'.op = "tick" /\ ops' = ops + 1

\* the pumps' active flags and the PTU enable flag are, after this step, what
\* update_hyd_logic_inputs makes of them in the state before it
LogicApplied ==
    /\ \A id \in PumpIds :
          pumps'[id].active
            = update_hyd_logic_inputs(World(loops, pumps, ptu), hyd_logic_inputs,
                                      overhead_panel).pumps[id].active
    /\ ptu'.isEnabled = PtuEnableCondition(hyd_logic_inputs, overhead_panel)

\* C13 as stated: the cockpit logic is applied on every host tick, ticks on
\* which less than one fixed step has accumulated included.
C13_LogicOnEveryTick == [][ TickStep => LogicApplied ]_vars

\* C13: the cockpit logic is applied on every host tick that runs at least one
\* sub-step, before the first sub-step; a tick on which less than one fixed step
\* has accumulated leaves the pumps and the PTU as they were.
C13_LogicOnTicksWithSubSteps ==
    [][ TickStep => IF obs'.num_of_update_loops >= 1 THEN LogicApplied
                    ELSE UNCHANGED << loops, pumps, ptu >> ]_vars

\* after a short tick EDP1 still runs although its push button was set to off
C13_Witness ==
    /\ obs.op = "tick" /\ obs.num_of_update_loops = 0
    /\ pumps["edp1"].active
    /\ is_off(overhead_panel, "edp1_push_button")

-----------------------------------------------------------------------------
(* update_hyd_logic_inputs over every combination of its inputs             *)

MaxLogicOps == 2

\* the pumps as constructed, or started and run for one step
PumpRunning(id) ==
    IF PumpKind(id) = "rat" THEN PumpNew("rat")
    ELSE AnyPumpUpdate(PumpStart(PumpNew(PumpKind(id))), HYDRAULIC_SIM_TIME_STEP,
                       MIN_LOOP_PRESSURE, 100)

InitLogic ==
    /\ loops = [ green |-> GreenLoopNew, yellow |-> YellowLoopNew, blue |-> BlueLoopNew ]
    /\ pumps \in { [ id \in PumpIds |-> PumpNew(PumpKind(id)) ],
                   [ id \in PumpIds |-> PumpRunning(id) ] }
    /\ ptu = PtuNew
    /\ hyd_logic_inputs \in
         [ parking_brake_applied : BOOLEAN, weight_on_wheels : BOOLEAN,
           eng_1_master_on : BOOLEAN, eng_2_master_on : BOOLEAN,
           nws_tow_engaged : BOOLEAN, cargo_door_operation : BOOLEAN ]
    /\ overhead_panel \in [ Buttons -> BOOLEAN ]
    /\ engine_n2 = << 0, 0 >>
    /\ total_sim_time_elapsed = 0
    /\ lag_time_accumulator = 0
    /\ focus = "green"
    /\ ops = 0
    /\ obs = ObsNew

\* A320Hydraulic::update_hyd_logic_inputs on its own
LogicApplyAct ==
    /\ ops < MaxLogicOps
    /\ pumps' = update_hyd_logic_inputs(World(loops, pumps, ptu), hyd_logic_inputs,
                                        overhead_panel).pumps
    /\ ptu' = update_hyd_logic_inputs(World(loops, pumps, ptu), hyd_logic_inputs,
                                      overhead_panel).ptu
    /\ ops' = ops + 1
    /\ obs' = [ ObsNew EXCEPT !.op = "logic" ]
    /\ UNCHANGED << loops, driverVars >>

NextLogic == LogicApplyAct

SpecLogic == InitLogic /\ [][NextLogic]_vars

\* C14: after update_hyd_logic_inputs the PTU is enabled exactly when its push
\* button is auto, and the aircraft is on its wheels or both engine masters are
\* on or both are off or neither parking brake nor NWS tow is set, and not
\* (cargo door operating while the yellow electric pump push button is off).
C14_PtuEnabledIff ==
    obs.op = "logic" =>
      ( ptu.isEnabled <=>
          /\ overhead_panel["ptu_push_button"]
          /\ \/ hyd_logic_inputs.weight_on_wheels
             \/ hyd_logic_inputs.eng_1_master_on /\ hyd_logic_inputs.eng_2_master_on
             \/ ~hyd_logic_inputs.eng_1_master_on /\ ~hyd_logic_inputs.eng_2_master_on
             \/ ~hyd_logic_inputs.parking_brake_applied /\ ~hyd_logic_inputs.nws_tow_engaged
          /\ ~( hyd_logic_inputs.cargo_door_operation
                /\ ~overhead_panel["yellow_epump_push_button"] ) )

\* on its wheels with the PTU push button at auto: only the cargo door inhibit keeps
\* the PTU disabled
C14_Witness ==
    /\ obs.op = "logic"
    /\ ~ptu.isEnabled
    /\ overhead_panel["ptu_push_button"]
    /\ hyd_logic_inputs.weight_on_wheels
    /\ hyd_logic_inputs.cargo_door_operation
    /\ ~overhead_panel["yellow_epump_push_button"]

\* C15: after update_hyd_logic_inputs EDP1, EDP2 and the blue electric pump are
\* active exactly when their push button is auto, the yellow electric pump is
\* active exactly when its push button is off, and start()/stop() changed
\* nothing of a pump but its active flag.
C15_PumpFlagsFollowButtons ==
    [][ obs'.op = "logic" /\ ops' = ops + 1 =>
          /\ pumps'["edp1"].active = overhead_panel["edp1_push_button"]
          /\ pumps'["edp2"].active = overhead_panel["edp2_push_button"]
          /\ pumps'["blue_epump"].active = overhead_panel["blue_epump_push_button"]
          /\ pumps'["yellow_epump"].active = ~overhead_panel["yellow_epump_push_button"]
          /\ \A id \in PumpIds :
                pumps'[id] = [ pumps[id] EXCEPT !.active = pumps'[id].active ] ]_vars

\* a turning yellow electric pump was stopped by its push button set to on and
\* still turns
C15_Witness ==
    /\ obs.op = "logic"
    /\ overhead_panel["yellow_epump_push_button"]
    /\ ~pumps["yellow_epump"].active
    /\ pumps["yellow_epump"].rpm > 0
    /\ pumps["yellow_epump"].delta_vol_max > 0

-----------------------------------------------------------------------------
(* The simulations of mod tests: loops stepped at 100 ms                    *)

\* the loops the tests build (hydraulic_loop): the A320's but for the colour tag
hydraulic_loop(loop_color) ==
    CASE loop_color = "Yellow" ->
           HydLoopNew("Yellow", FALSE, TRUE, 26000000, 26410000, 10000000, 3830000)
      [] loop_color = "Green" ->
           HydLoopNew("Green", TRUE, FALSE, 10200000, 10200000, 8000000, 3300000)
      [] OTHER ->
           HydLoopNew(loop_color, FALSE, FALSE, 15850000, 15850000, 8000000, 1500000)

\* iterations of the test loops
EDP_TEST_TICKS   == 600
EPUMP_TEST_TICKS == 800
PTU_TEST_TICKS   == 800

\* step of the tests' context, ms
TEST_STEP == 100

TestNames == { "green", "yellow", "blue", "green_yellow_ptu" }

\* the state each test starts its loop from; focus is the test that runs
InitTests ==
    /\ focus \in TestNames
    /\ loops = [ green |-> hydraulic_loop("Green"), yellow |-> hydraulic_loop("Yellow"),
                 blue |-> hydraulic_loop("Blue") ]
    /\ pumps = [ id \in PumpIds |->
                   IF \/ focus = "green" /\ id = "edp1"
                      \/ focus = "yellow" /\ id = "yellow_epump"
                      \/ focus = "blue" /\ id = "blue_epump"
                   THEN PumpStart(PumpNew(PumpKind(id)))
                   ELSE PumpStop(PumpNew(PumpKind(id))) ]
    /\ ptu = PtuNew
    /\ hyd_logic_inputs = HydLogicNew
    /\ overhead_panel = OverheadPanelNew
    /\ engine_n2 = IF focus = "green" THEN << 55, 0 >>
                   ELSE IF focus = "green_yellow_ptu" THEN << 100, 0 >> ELSE << 0, 0 >>
    /\ total_sim_time_elapsed = 0
    /\ lag_time_accumulator = 0
    /\ ops = 0
    /\ obs = ObsNew

\* what every test iteration leaves alone, and its count
TestTickDone ==
    /\ ops' = ops + 1
    /\ obs' = [ ObsNew EXCEPT !.op = "test_tick", !.delta_time = TEST_STEP ]
    /\ UNCHANGED driverVars

\* one pump against one loop, no PTU (lines 1011-1012, 1134-1135, 1176-1177)
PumpAndLoopStep(loop, id, pump) ==
    /\ loops' = [ loops EXCEPT ![loop] = HydLoopUpdate(@, TEST_STEP, << pump >>, << >>).loop ]
    /\ pumps' = [ pumps EXCEPT ![id] = pump ]
    /\ UNCHANGED ptu
    /\ TestTickDone

\* tests::green_loop_edp_simulation, iteration x = ops
GreenLoopEdpTick ==
    /\ focus = "green" /\ ops < EDP_TEST_TICKS
    /\ PumpAndLoopStep("green", "edp1",
          EngineDrivenPumpUpdate(IF ops = 200 THEN PumpStop(pumps["edp1"]) ELSE pumps["edp1"],
                                 TEST_STEP, loops["green"].loop_pressure, engine_n2[1]))

\* tests::yellow_loop_epump_simulation, iteration x = ops
YellowLoopEpumpTick ==
    /\ focus = "yellow" /\ ops < EPUMP_TEST_TICKS
    /\ PumpAndLoopStep("yellow", "yellow_epump",
          ElectricPumpUpdate(IF ops = 400 THEN PumpStop(pumps["yellow_epump"])
                             ELSE pumps["yellow_epump"],
                             TEST_STEP, loops["yellow"].loop_pressure))

\* tests::blue_loop_epump_simulation, iteration x = ops
BlueLoopEpumpTick ==
    /\ focus = "blue" /\ ops < EPUMP_TEST_TICKS
    /\ PumpAndLoopStep("blue", "blue_epump",
          ElectricPumpUpdate(IF ops = 400 THEN PumpStop(pumps["blue_epump"])
                             ELSE pumps["blue_epump"],
                             TEST_STEP, loops["blue"].loop_pressure))

\* the updates of tests::yellow_green_ptu_loop_simulation (lines 1305-1310)
PtuLoopsStep(t, edp1, epump) ==
    /\ loops' = [ loops EXCEPT
                    !["yellow"] = HydLoopUpdate(@, TEST_STEP, << epump >>, << t >>).loop,
                    !["green"]  = HydLoopUpdate(@, TEST_STEP, << edp1 >>, << t >>).loop ]
    /\ pumps' = [ pumps EXCEPT !["edp1"] = edp1, !["yellow_epump"] = epump ]
    /\ ptu' = t
    /\ TestTickDone

\* tests::yellow_green_ptu_loop_simulation, iteration x = ops: the electric pump
\* starts at 10, the PTU is enabled at 110, EDP1 starts at 400 and stops at 600
PtuLoopsTick ==
    /\ focus = "green_yellow_ptu" /\ ops < PTU_TEST_TICKS
    /\ PtuLoopsStep(
          PtuUpdate(IF ops = 110 THEN PtuEnabling(ptu, TRUE) ELSE ptu,
                    loops["green"], loops["yellow"]),
          EngineDrivenPumpUpdate(IF ops = 400 THEN PumpStart(pumps["edp1"])
                                 ELSE IF ops = 600 THEN PumpStop(pumps["edp1"])
                                 ELSE pumps["edp1"],
                                 TEST_STEP, loops["green"].loop_pressure, engine_n2[1]),
          ElectricPumpUpdate(IF ops = 10 THEN PumpStart(pumps["yellow_epump"])
                             ELSE pumps["yellow_epump"],
                             TEST_STEP, loops["yellow"].loop_pressure))

NextTests ==
    \/ GreenLoopEdpTick
    \/ YellowLoopEpumpTick
    \/ BlueLoopEpumpTick
    \/ PtuLoopsTick

SpecTests == InitTests /\ [][NextTests]_vars

\* C16: a loop fed by one running pump and stepped at 100 ms builds pressure
\* and bleeds down within the tested bounds.  Green with the EDP at N2 = 55 %:
\* at least 2950 psi at ticks 50 and 200, at most 250 psi from tick 500 on (EDP
\* stopped at tick 200).  Yellow and blue with their electric pump: at least
\* 2800 psi at tick 400, and from tick 600 on (pump stopped at tick 400) at most
\* 200 psi for yellow and 100 psi for blue.
C16_BuildUpAndBleedDown ==
    /\ focus = "green" =>
          /\ ops \in { 50, 200 } => loops["green"].loop_pressure >= 295000
          /\ ops >= 500 => loops["green"].loop_pressure <= 25000
    /\ focus = "yellow" =>
          /\ ops = 400 => loops["yellow"].loop_pressure >= 280000
          /\ ops >= 600 => loops["yellow"].loop_pressure <= 20000
    /\ focus = "blue" =>
          /\ ops = 400 => loops["blue"].loop_pressure >= 280000
          /\ ops >= 600 => loops["blue"].loop_pressure <= 10000

\* the blue loop 20 s after its pump was stopped, bled down but still above
\* the pressure floor
C16_Witness ==
    /\ focus = "blue" /\ ops = 600
    /\ ~pumps["blue_epump"].active
    /\ loops["blue"].loop_pressure > MIN_LOOP_PRESSURE
    /\ loops["blue"].loop_pressure <= 10000

\* the reservoirs of the green and yellow loops hold fluid, not more than the
\* loops were built with
ReservoirsWithinInitial ==
    /\ loops["green"].reservoir_volume > 0
    /\ loops["green"].reservoir_volume <= hydraulic_loop("Green").reservoir_volume
    /\ loops["yellow"].reservoir_volume > 0
    /\ loops["yellow"].reservoir_volume <= hydraulic_loop("Yellow").reservoir_volume

-----------------------------------------------------------------------------
(* A pump built on any table: Pump::new, calculate_displacement, update     *)

MaxTableLen == 3
MaxTableOps == 1

\* breakpoints and values the tables are drawn from, and the points looked up
TableXs == { 0, 1000, 3000 }
TableYs == { 0, 100, 250 }
TableSamples == { -500, 0, 500, 1000, 2000, 3000, 3500 }

\* Pump::new takes two arrays of one length (9 in the source) and stores them
\* unchecked, in whatever order the breakpoints are
InitTable ==
    /\ loops = [ green |-> GreenLoopNew, yellow |-> YellowLoopNew, blue |-> BlueLoopNew ]
    /\ ptu = PtuNew
    /\ hyd_logic_inputs = HydLogicNew
    /\ overhead_panel = OverheadPanelNew
    /\ engine_n2 = << 0, 0 >>
    /\ total_sim_time_elapsed = 0
    /\ lag_time_accumulator = 0
    /\ ops = 0
    /\ obs = ObsNew
    /\ focus = "green"
    /\ \E n \in 2 .. MaxTableLen :
         \E xs \in [ 1 .. n -> TableXs ], ys \in [ 1 .. n -> TableYs ] :
            pumps = [ id \in PumpIds |->
                        IF id = "rat" THEN PumpWith("rat", xs, ys, RAT_DISPLACEMENT_DYNAMICS)
                        ELSE PumpNew(PumpKind(id)) ]

\* Pump::calculate_displacement
CalculateDisplacementAct(id, pressure) ==
    /\ ops' = ops + 1
    /\ obs' = [ ObsNew EXCEPT !.op = "calculate_displacement", !.pump = id,
                              !.intermediate_x = pressure,
                              !.result = calculate_displacement(pumps[id], pressure) ]
    /\ UNCHANGED << loops, pumps, ptu, driverVars >>

NextTable ==
    /\ ops < MaxTableOps
    /\ \/ \E x \in TableSamples : CalculateDisplacementAct("rat", x)
       \/ \E x \in TableSamples : PumpUpdateAct("rat", HYDRAULIC_SIM_TIME_STEP, x, 0)

SpecTable == InitTable /\ [][NextTable]_vars

StrictlyIncreasing(xs) == \A i \in 1 .. (Len(xs) - 1) : xs[i] < xs[i + 1]
NonDecreasing(xs) == \A i \in 1 .. (Len(xs) - 1) : xs[i] <= xs[i + 1]

\* y is the value at x of the line through (x0, y0) and (x1, y1), to the
\* nearest unit
OnSegment(x, y, x0, y0, x1, y1) ==
    2 * Abs((y - y0) * (x1 - x0) - (x - x0) * (y1 - y0)) <= x1 - x0

\* C18: on strictly increasing breakpoints xs with values ys of the same
\* length, at least 2, interpolation returns ys[first] at or below xs[first],
\* ys[last] at or above xs[last], the point of the straight line between the
\* neighbouring breakpoints on the one segment with xs[i-1] <= x < xs[i], and
\* ys[k] exactly at every breakpoint xs[k].
C18_Interpolation ==
    LET xs == pumps["rat"].pressBreakpoints
        ys == pumps["rat"].displacementCarac
        x  == obs.intermediate_x
    IN  obs.op = "calculate_displacement" /\ StrictlyIncreasing(xs) /\ Len(xs) = Len(ys) =>
          /\ x <= xs[1] => obs.result = ys[1]
          /\ x >= xs[Len(xs)] => obs.result = ys[Len(ys)]
          /\ \A i \in 2 .. Len(xs) :
                xs[i - 1] <= x /\ x < xs[i] =>
                  OnSegment(x, obs.result, xs[i - 1], ys[i - 1], xs[i], ys[i])
          /\ \A k \in 1 .. Len(xs) : x = xs[k] => obs.result = ys[k]

\* a point strictly inside the second segment of a three-point table whose
\* values differ
C18_Witness ==
    /\ obs.op = "calculate_displacement"
    /\ pumps["rat"].pressBreakpoints = << 0, 1000, 3000 >>
    /\ pumps["rat"].displacementCarac = << 250, 100, 0 >>
    /\ obs.intermediate_x = 2000
    /\ obs.result = 50

\* C19 as claimed: a pump whose table has mismatched lengths or breakpoints
\* that are not non-decreasing fails at construction, so the pump that has
\* just been updated has tables of one length on non-decreasing breakpoints.
C19_NoPumpOnBadTable ==
    obs.op = "pump_update" =>
        /\ Len(pumps[obs.pump].pressBreakpoints) = Len(pumps[obs.pump].displacementCarac)
        /\ NonDecreasing(pumps[obs.pump].pressBreakpoints)

\* C20: every pump offers 0 <= delta_vol_min <= delta_vol_max, and the pump
\* that has just been updated offers a delta_vol_min of exactly 0.
C20_PumpOutputsOrdered ==
    /\ \A id \in PumpIds :
          /\ 0 <= pumps[id].delta_vol_min
          /\ pumps[id].delta_vol_min <= pumps[id].delta_vol_max
    /\ obs.op = "pump_update" => pumps[obs.pump].delta_vol_min = 0

\* a pump whose update over a full step left it with volume to offer
C20_Witness ==
    /\ obs.op = "pump_update"
    /\ obs.delta_time > 0
    /\ pumps[obs.pump].delta_vol_max > 0
    /\ pumps[obs.pump].delta_vol_min = 0

-----------------------------------------------------------------------------
(* Number of sub-steps of a host tick                                       *)

\* C21 as claimed: a host tick runs exactly floor((dt + previous lag) / 100 ms)
\* sub-steps; when dt + previous lag is below 100 ms it runs none, leaves
\* every loop, pump and the PTU as they were and carries the whole of
\* dt + previous lag into lag_time_accumulator.
C21_FloorOfTimeToCatch ==
    [][TickStep =>
        LET time_to_catch == obs'.delta_time + lag_time_accumulator
        IN  /\ obs'.num_of_update_loops = time_to_catch \div min_hyd_loop_timestep
            /\ time_to_catch < min_hyd_loop_timestep =>
                  /\ UNCHANGED << loops, pumps, ptu >>
                  /\ lag_time_accumulator' = time_to_catch]_vars

-----------------------------------------------------------------------------
(* An electric pump started, stopped and updated in any order               *)

\* steps the pump is updated with, ms
EpumpDts == { 0, 100, 300 }

\* step time after which the time the pump has been held is no longer counted
MaxHeldTime == 4100

InitEpump == Init

\* ElectricPump::start; held_time is the step time of the updates since the
\* last call of start or stop
EpumpStartAct(id) ==
    /\ pumps' = [ pumps EXCEPT ![id] = PumpStart(@) ]
    /\ obs' = [ ObsNew EXCEPT !.op = "start", !.pump = id ]
    /\ UNCHANGED << loops, ptu, driverVars, ops >>

\* ElectricPump::stop
EpumpStopAct(id) ==
    /\ pumps' = [ pumps EXCEPT ![id] = PumpStop(@) ]
    /\ obs' = [ ObsNew EXCEPT !.op = "stop", !.pump = id ]
    /\ UNCHANGED << loops, ptu, driverVars, ops >>

\* an update that adds or removes speed without limiting the result
EpumpUpdateAct_Unclamped(id, delta_time) ==
    /\ pumps' = [ pumps EXCEPT ![id] =
                    [ @ EXCEPT !.rpm =
                        IF @ < NOMINAL_SPEED /\ pumps[id].active
                        THEN @ + MulDiv(NOMINAL_SPEED, delta_time, SPOOLUP_TIME)
                        ELSE IF ~pumps[id].active /\ @ > 0
                        THEN @ - MulDiv(NOMINAL_SPEED, delta_time, SPOOLDOWN_TIME)
                        ELSE @ ] ]
    /\ obs' = [ ObsNew EXCEPT !.op = "pump_update", !.pump = id, !.delta_time = delta_time,
                              !.held_time = Min(obs.held_time + delta_time, MaxHeldTime) ]
    /\ UNCHANGED << loops, ptu, driverVars, ops >>

\* ElectricPump::update against the blue loop as constructed
EpumpUpdateAct(id, delta_time) ==
    /\ pumps' = [ pumps EXCEPT ![id] =
                    ElectricPumpUpdate(@, delta_time, loops["blue"].loop_pressure) ]
    /\ obs' = [ ObsNew EXCEPT !.op = "pump_update", !.pump = id, !.delta_time = delta_time,
                              !.held_time = Min(obs.held_time + delta_time, MaxHeldTime) ]
    /\ UNCHANGED << loops, ptu, driverVars, ops >>

NextEpump ==
    \/ EpumpStartAct("blue_epump")
    \/ EpumpStopAct("blue_epump")
    \/ \E dt \in EpumpDts : EpumpUpdateAct("blue_epump", dt)

SpecEpump == InitEpump /\ [][NextEpump]_vars

\* the last operation was an update of the blue electric pump
EpumpUpdated == obs.op = "pump_update" /\ obs.pump = "blue_epump"

\* C22: the rpm of an electric pump stays within 0..7600 whatever the steps
\* and the calls of start and stop; while the pump is held active an update
\* never lowers the rpm, and the rpm is 7600 once 4 s of step time have passed;
\* while it is held inactive an update never raises the rpm, and the rpm is 0
\* once 4 s of step time have passed.
C22_EpumpSpool ==
    /\ [](/\ 0 <= pumps["blue_epump"].rpm
          /\ pumps["blue_epump"].rpm <= 76000
          /\ EpumpUpdated /\ obs.held_time >= 4000 =>
                pumps["blue_epump"].rpm = (IF pumps["blue_epump"].active THEN 76000 ELSE 0))
    /\ [][obs'.op = "pump_update" =>
            /\ pumps["blue_epump"].active => pumps'["blue_epump"].rpm >= pumps["blue_epump"].rpm
            /\ ~pumps["blue_epump"].active => pumps'["blue_epump"].rpm <= pumps["blue_epump"].rpm]_vars

\* the pump at full speed and delivering when it has been held active for 4 s
C22_Witness ==
    /\ EpumpUpdated
    /\ pumps["blue_epump"].active
    /\ obs.held_time = 4000
    /\ obs.delta_time = 100
    /\ pumps["blue_epump"].rpm = 76000
    /\ pumps["blue_epump"].delta_vol_max > 0

-----------------------------------------------------------------------------
(* PTU activation and deactivation                                          *)

PtuIdle(t) == ~t.isActiveLeft /\ ~t.isActiveRight

PtuFlowsZero(t) == t.flow_to_left = 0 /\ t.flow_to_right = 0 /\ t.last_flow = 0

\* an update of the PTU while it is enabled
EnabledPtuUpdateStep == obs'.op = "ptu_update" /\ ptu.isEnabled

\* C23: from idle an enabled update engages left to right only if
\* P_left - P_right > 500 psi and right to left only if it is < -500 psi; an
\* enabled update of an active PTU ends in the same direction, whatever the
\* pressure difference, or with both flags false when a deactivation condition
\* holds; no update takes the PTU from one direction to the other.
C23_PtuHysteresis ==
    [][EnabledPtuUpdateStep =>
        /\ PtuIdle(ptu) /\ ptu'.isActiveLeft =>
              obs'.left_pressure - obs'.right_pressure > 50000
        /\ PtuIdle(ptu) /\ ptu'.isActiveRight =>
              obs'.left_pressure - obs'.right_pressure < -50000
        /\ ptu.isActiveLeft => ~ptu'.isActiveRight
        /\ ptu.isActiveRight => ~ptu'.isActiveLeft
        /\ ~PtuIdle(ptu) /\ ~PtuIdle(ptu') =>
              /\ ptu'.isActiveLeft = ptu.isActiveLeft
              /\ ptu'.isActiveRight = ptu.isActiveRight
        /\ ptu.isActiveLeft /\ PtuIdle(ptu') =>
              obs'.right_pressure > 300100 \/ obs'.left_pressure < 50000
        /\ ptu.isActiveRight /\ PtuIdle(ptu') =>
              obs'.left_pressure > 300100 \/ obs'.right_pressure < 50000]_vars

\* the PTU still drives left to right although the right side is now more
\* than 500 psi above the left side
C23_Witness ==
    /\ obs.op = "ptu_update"
    /\ ptu.isEnabled
    /\ ptu.isActiveLeft
    /\ obs.left_pressure - obs.right_pressure < -50000

\* the last operation was an enabled update in which the PTU drove the given way
PtuDrove(side) == obs.op = "ptu_update" /\ ptu.isEnabled /\ obs.engaged = side

\* C24 as claimed: after an enabled update in which the PTU is active and the
\* destination loop is above 3001 psi, or either loop, source or destination,
\* is below 500 psi, both active flags are false and the three flows are zero.
C24_DeactivatedOnEitherSideLow ==
    /\ PtuDrove("left")
       /\ (obs.right_pressure > 300100 \/ obs.left_pressure < 50000 \/ obs.right_pressure < 50000)
       => PtuIdle(ptu) /\ PtuFlowsZero(ptu)
    /\ PtuDrove("right")
       /\ (obs.left_pressure > 300100 \/ obs.left_pressure < 50000 \/ obs.right_pressure < 50000)
       => PtuIdle(ptu) /\ PtuFlowsZero(ptu)

\* C24 (amended): after an enabled update in which the PTU is active and the
\* destination loop is above 3001 psi or the source loop is below 500 psi, both
\* active flags are false and the three flows are zero; in every other case,
\* a destination loop below 500 psi included, the PTU is still active in its
\* direction.
C24_DeactivatedOnSourceLow ==
    /\ PtuDrove("left") =>
          IF obs.right_pressure > 300100 \/ obs.left_pressure < 50000
          THEN PtuIdle(ptu) /\ PtuFlowsZero(ptu)
          ELSE ptu.isActiveLeft /\ ~ptu.isActiveRight
    /\ PtuDrove("right") =>
          IF obs.left_pressure > 300100 \/ obs.right_pressure < 50000
          THEN PtuIdle(ptu) /\ PtuFlowsZero(ptu)
          ELSE ptu.isActiveRight /\ ~ptu.isActiveLeft

\* the PTU, driving left to right, shut down on a right side above 3001 psi
C24_Witness ==
    /\ PtuDrove("left")
    /\ obs.right_pressure > 300100
    /\ PtuIdle(ptu)
    /\ PtuFlowsZero(ptu)

\* C25: whenever both active flags are false, flow_to_left, flow_to_right and
\* last_flow are zero, whether the PTU is enabled or not.
C25_IdlePtuPublishesNothing == PtuIdle(ptu) => PtuFlowsZero(ptu)

\* the PTU, driving right to left, shut down on a right side below 500 psi
C25_Witness ==
    /\ PtuDrove("right")
    /\ obs.right_pressure < 50000
    /\ PtuIdle(ptu)
    /\ ptu.last_flow = 0

-----------------------------------------------------------------------------
(* A disabled PTU                                                           *)

\* the flow the PTU publishes to the loop under update
PublishedFlow(t) ==
    IF loops[focus].connected_to_ptu_left_side THEN t.flow_to_left ELSE t.flow_to_right

\* C26: an update of a PTU that is not enabled changes none of its fields, even
\* when a deactivation condition holds; enabling changes the enabled flag only;
\* and an update of a loop attached to the disabled PTU applies the flow the
\* PTU published before it was disabled: a flow out of the loop in full, a
\* flow into the loop in full while the reservoir can supply it.
C26_DisabledPtuFrozen ==
    [][/\ obs'.op = "ptu_update" /\ ~ptu.isEnabled => ptu' = ptu
       /\ obs'.op = "ptu_enabling" => ptu' = [ ptu EXCEPT !.isEnabled = ptu'.isEnabled ]
       /\ obs'.op = "loop_update" /\ obs'.ptus = 1 /\ ~ptu.isEnabled =>
             /\ ptu' = ptu
             /\ PublishedFlow(ptu) <= 0 =>
                   obs'.ptu_vol = VolumeOver(PublishedFlow(ptu), obs'.delta_time)
             /\ PublishedFlow(ptu) > 0 =>
                   /\ obs'.ptu_vol >= 0
                   /\ obs'.ptu_vol <= VolumeOver(PublishedFlow(ptu), obs'.delta_time)
                   /\ loops[focus].reservoir_volume
                        > VolumeOver(PublishedFlow(ptu), obs'.delta_time) + 1 =>
                         obs'.ptu_vol = VolumeOver(PublishedFlow(ptu), obs'.delta_time)]_vars

\* a loop updated with the flow of a PTU that was disabled while it was driving
C26_Witness ==
    /\ LoopUpdated
    /\ obs.ptus = 1
    /\ ~ptu.isEnabled
    /\ ~PtuIdle(ptu)
    /\ ptu.last_flow > 0
    /\ obs.delta_time > 0
    /\ obs.ptu_vol # 0

\* C27 as claimed: after every update of a loop connected to a PTU the loop's
\* ptu_active is true if and only if the PTU is active on either side, left to
\* right or right to left.
C27_PtuActiveOnEitherSide ==
    LoopUpdated /\ obs.ptus = 1 =>
        loops[focus].ptu_active = (ptu.isActiveLeft \/ ptu.isActiveRight)

-----------------------------------------------------------------------------
(* Accumulator charge and pressure regulation                               *)

\* C28 as claimed: when the accumulator gas pressure is not above the loop
\* pressure, the volume moved into the accumulator is
\* max(0, min(delta_vol, F * dt)), delta_vol being the balance of the step so
\* far (PTU volume less the static leak) and F the table flow: it never
\* exceeds a positive delta_vol and is zero when delta_vol <= 0.
C28_ChargeLimitedByBalance ==
    LoopUpdated /\ obs.accumulatorDeltaPress <= 0 =>
        /\ obs.volumeToAcc =
             Max(0, Min(obs.ptu_vol - obs.static_leaks_vol,
                        VolumeOver(obs.flowVariation, obs.delta_time)))
        /\ obs.volumeToAcc <= Max(0, obs.ptu_vol - obs.static_leaks_vol)

\* C29: in every loop update the volume added by the regulation is
\* min(reservoir, max(delta_vol_min, min(delta_vol_max, need))), need being
\* the volume to reach 3000 psi less the balance of the step; it is never
\* negative, never more than the reservoir holds at that point (after the PTU
\* draw and the priming), and the reservoir loses exactly this amount besides
\* the PTU volume and the priming volume, and gains the static leak.
C29_Regulation ==
    [][obs'.op = "loop_update" =>
        LET reservoir == loops[focus].reservoir_volume - Max(obs'.ptu_vol, 0)
                         - obs'.delta_loop_vol
            need      == vol_to_target(loops[focus], TARGET_PRESSURE)
                         - (obs'.delta_vol - obs'.added)
        IN  /\ obs'.added = Min(reservoir,
                                Max(obs'.delta_vol_min, Min(obs'.delta_vol_max, need)))
            /\ obs'.added >= 0
            /\ obs'.added <= reservoir
            /\ loops'[focus].reservoir_volume =
                 loops[focus].reservoir_volume - obs'.ptu_vol - obs'.delta_loop_vol
                 - obs'.added + obs'.static_leaks_vol]_vars

\* a loop above 3000 psi, fed by a pump with volume to offer: the need is
\* negative and the regulation adds nothing
C29_Witness ==
    /\ LoopUpdated
    /\ obs.needed < 0
    /\ obs.delta_vol_max > 0
    /\ obs.added = 0

-----------------------------------------------------------------------------
(* Simulated time                                                           *)

=============================================================================
